---------------------------- MODULE Spec2Model ----------------------------
(* A model of robinhood's configuration core, src/cfg_parsing/rbh_cfg.c:   *)
(* the module driver (ReadRobinhoodConfig, ReloadRobinhoodConfig), the     *)
(* scalar extractors, the criteria compiler and the builders of boolean    *)
(* and set expressions with their ownership model.                         *)
EXTENDS Integers, Sequences, FiniteSets, TLC

VARIABLES
    modules,   \* robinhood_module_conf: the flags of each module, in table order
    drv,       \* the last driver call: its arguments, the callbacks it made, its result
    par,       \* the last scalar extractor call: its arguments, the target, its result
    rsp,       \* the last read_scalar_params call: its descriptors, the reads, its result
    cri,       \* the last criteria compilation: its arguments, the triplet, its result
    mem,       \* every bool node and triplet ever allocated, by address
    fileset_list,  \* policies->fileset_list: the file classes defined so far
    trees,     \* the bool trees the callers asked for, in call order
    call       \* the last call on a bool tree: what it returned and what it freed

polVars == <<mem, fileset_list, trees, call>>
vars == <<modules, drv, par, rsp, cri, mem, fileset_list, trees, call>>

-----------------------------------------------------------------------------
(* errno values and bounds                                                 *)

ENOENT == 2
ENOMEM == 12
EINVAL == 22
ENOTSUP == 95

\* number of entries of the module table
NModules == 3
\* number of mask bits a module's flags and module_mask range over
NMaskBits == 2
\* longest parameter value drawn from the alphabets (the stdio names are added)
MaxStrLen == 3

-----------------------------------------------------------------------------
(* The state between two calls                                             *)

MODULE_MASK_ALWAYS == 0

\* the item rh_config_GetItemByName finds for the variable: none, one that
\* is no key/value (rh_config_GetKeyValue fails on it), or a key/value with
\* its value and whether options follow the value
Absent == [kind |-> "absent", value |-> <<>>, extra |-> FALSE]
NotAVar == [kind |-> "block", value |-> <<>>, extra |-> FALSE]
VarItems(values) ==
    {[kind |-> "var", value |-> v, extra |-> e] : v \in values, e \in BOOLEAN}

\* no driver call in progress
DrvIdle ==
    [op |-> "none", module_mask |-> 0, parsed |-> FALSE, failAt |-> 0,
     failCode |-> 0, results |-> <<>>, calls |-> <<>>, rc |-> 0]

\* no extractor call in progress
ParIdle ==
    [fn |-> "none", item |-> Absent, flags |-> {}, sink |-> FALSE,
     target_size |-> 0, old |-> 0, target |-> 0, rc |-> 0, err |-> ""]

\* no read_scalar_params call in progress
RspIdle ==
    [fn |-> "none", params |-> <<>>, reads |-> <<>>, targets |-> <<>>, rc |-> 0,
     msgout |-> ""]

\* a triplet as malloc returns it and interpret_condition seeds it: flags
\* is 0, the other fields hold no value yet ("?")
FreshTriplet == [crit |-> "?", op |-> "?", val |-> "?", xattr_name |-> "?", flags |-> {}]

\* no criteria compilation in progress
CriIdle ==
    [fn |-> "none", key_value |-> [varname |-> <<>>, op_type |-> "?", varvalue |-> <<>>],
     type |-> "?", flags |-> {}, smi |-> [smi_index |-> -1, status |-> {}], attr_mask |-> 0, mask_in |-> 0,
     ub |-> "none", rc |-> 0, triplet |-> FreshTriplet, mask |-> 0, err |-> "",
     crashed |-> FALSE]

\* no bool tree call made yet
CallIdle ==
    [fn |-> "none", root |-> 0, rc |-> 0, err |-> <<>>, mask |-> 0, freed |-> {},
     ub |-> FALSE, smi |-> [smi_index |-> -1, status |-> {}],
     print |-> [str_size |-> 0, writes |-> <<>>]]

\* no file class, no bool tree, nothing allocated
PolIdle ==
    /\ mem = <<>>
    /\ fileset_list = <<>>
    /\ trees = <<>>
    /\ call = CallIdle

-----------------------------------------------------------------------------
(* Integer helpers                                                         *)

RECURSIVE Pow2(_)
Pow2(n) == IF n = 0 THEN 1 ELSE 2 * Pow2(n - 1)

\* a & b on non-negative integers
RECURSIVE BitAnd(_, _)
BitAnd(a, b) ==
    IF a = 0 \/ b = 0 THEN 0
    ELSE (IF a % 2 = 1 /\ b % 2 = 1 THEN 1 ELSE 0) + 2 * BitAnd(a \div 2, b \div 2)

\* a | b on non-negative integers
RECURSIVE BitOr(_, _)
BitOr(a, b) ==
    IF a = 0 THEN b
    ELSE IF b = 0 THEN a
    ELSE (IF a % 2 = 1 \/ b % 2 = 1 THEN 1 ELSE 0) + 2 * BitOr(a \div 2, b \div 2)

Masks == 0 .. (Pow2(NMaskBits) - 1)

-----------------------------------------------------------------------------
(* Strings: a C string is the sequence of its characters                   *)

RECURSIVE SeqsUpTo(_, _)
SeqsUpTo(alphabet, n) ==
    IF n = 0 THEN {<<>>}
    ELSE LET shorter == SeqsUpTo(alphabet, n - 1)
         IN  shorter \cup {Append(w, c) : w \in shorter, c \in alphabet}

Contains(str, c) == \E k \in 1 .. Len(str) : str[k] = c

\* strchr: the index of the first c in str, 0 when there is none
StrChr_Last(str, c) ==
    IF \E k \in 1 .. Len(str) : str[k] = c
    THEN CHOOSE k \in 1 .. Len(str) :
            str[k] = c /\ \A j \in (k + 1) .. Len(str) : str[j] # c
    ELSE 0
StrChr(str, c) ==
    IF Contains(str, c)
    THEN CHOOSE k \in 1 .. Len(str) : str[k] = c /\ \A j \in 1 .. (k - 1) : str[j] # c
    ELSE 0

Prefix(str, n) == SubSeq(str, 1, IF n < Len(str) THEN n ELSE Len(str))

UpperCase == <<"A", "B", "C", "D", "E", "F", "G", "H", "I", "J", "K", "L", "M",
               "N", "O", "P", "Q", "R", "S", "T", "U", "V", "W", "X", "Y", "Z">>
LowerCase == <<"a", "b", "c", "d", "e", "f", "g", "h", "i", "j", "k", "l", "m",
               "n", "o", "p", "q", "r", "s", "t", "u", "v", "w", "x", "y", "z">>

ToLowerChar(c) ==
    IF \E k \in 1 .. Len(UpperCase) : UpperCase[k] = c
    THEN LowerCase[CHOOSE k \in 1 .. Len(UpperCase) : UpperCase[k] = c]
    ELSE c

ToLower(str) == [k \in 1 .. Len(str) |-> ToLowerChar(str[k])]

\* !strcasecmp(a, b)
StrCaseEq_SameCase(a, b) == a = b
StrCaseEq(a, b) == ToLower(a) = ToLower(b)

\* rbh_misc.h macros
EMPTY_STRING(str) == Len(str) = 0
IS_ABSOLUTE_PATH(str) == Len(str) > 0 /\ str[1] = "/"
WILDCARDS_IN(str) == Contains(str, "*") \/ Contains(str, "?") \/ Contains(str, "[")
FINAL_SLASH(str) == Len(str) > 1 /\ str[Len(str)] = "/"
REMOVE_FINAL_SLASH(str) == SubSeq(str, 1, Len(str) - 1)

\* rh_strncpy(target, value, target_size): at most target_size - 1
\* characters, always terminated
rh_strncpy(value, target_size) == Prefix(value, target_size - 1)

-----------------------------------------------------------------------------
(* Value parsers                                                           *)

\* A 64-bit unsigned value is represented by the integer of least absolute
\* value congruent to it modulo 2^64: (unsigned long long) -1 by -1. Sums and
\* products of the values drawn stay far from 2^63, so the representation of
\* a result is the result of the representations.
ULLONG_MINUS_ONE == -1

Digits == <<"0", "1", "2", "3", "4", "5", "6", "7", "8", "9">>
IsDigit(c) == \E k \in 1 .. Len(Digits) : Digits[k] = c
DigitVal(c) == (CHOOSE k \in 1 .. Len(Digits) : Digits[k] = c) - 1

\* the number of leading digits of str from position k on
RECURSIVE DigitRun(_, _)
DigitRun(str, k) ==
    IF k <= Len(str) /\ IsDigit(str[k]) THEN 1 + DigitRun(str, k + 1) ELSE 0

RECURSIVE DecimalValue(_)
DecimalValue(digits) ==
    IF Len(digits) = 0 THEN 0
    ELSE 10 * DecimalValue(SubSeq(digits, 1, Len(digits) - 1))
         + DigitVal(digits[Len(digits)])

\* sscanf(value, "%d%256s", &intval, tmpbuf): nb_read, the integer and the
\* token that follows it. The values drawn hold no white space.
ScanInt(value) ==
    LET signed == Len(value) > 0 /\ value[1] \in {"-", "+"}
        from == IF signed THEN 2 ELSE 1
        nd == DigitRun(value, from)
        mag == DecimalValue(SubSeq(value, from, from + nd - 1))
        rest == SubSeq(value, from + nd, Len(value))
    IN  IF nd = 0 THEN [nb_read |-> 0, val |-> 0, tmpbuf |-> <<>>]
        ELSE [nb_read |-> IF Len(rest) = 0 THEN 1 ELSE 2,
              val |-> IF signed /\ value[1] = "-" THEN 0 - mag ELSE mag,
              tmpbuf |-> rest]

\* uint64_t as GetInt64Param computes with it: four 16-bit limbs, the least
\* significant first. A sequence of more limbs is a natural number that 64
\* bits may not hold.
LimbBase == 65536
U64Limbs == 4

\* x * m + c, in as many limbs as it takes (m and c below 2^15)
RECURSIVE MulAdd(_, _, _)
MulAdd(x, m, c) ==
    IF x = <<>>
    THEN IF c = 0 THEN <<>> ELSE <<c % LimbBase>> \o MulAdd(<<>>, m, c \div LimbBase)
    ELSE <<(x[1] * m + c) % LimbBase>>
             \o MulAdd(Tail(x), m, (x[1] * m + c) \div LimbBase)

\* the conversion to uint64_t: the value modulo 2^64
Wrap64(x) == [k \in 1 .. U64Limbs |-> IF k <= Len(x) THEN x[k] ELSE 0]

U64(n) == Wrap64(MulAdd(<<>>, 0, n))

\* 0 - x in uint64_t
Neg64(x) == Wrap64(MulAdd([k \in 1 .. U64Limbs |-> LimbBase - 1 - x[k]], 1, 1))

\* the natural number a run of decimal digits denotes
RECURSIVE DecimalLimbs(_)
DecimalLimbs(digits) ==
    IF Len(digits) = 0 THEN <<>>
    ELSE MulAdd(DecimalLimbs(SubSeq(digits, 1, Len(digits) - 1)), 10,
                DigitVal(digits[Len(digits)]))

\* intval *= 1000ULL, n times over: 1000ULL, 1000000ULL, ... in uint64_t
RECURSIVE TimesThousand(_, _)
TimesThousand(x, n) ==
    IF n = 0 THEN x ELSE TimesThousand(Wrap64(MulAdd(x, 1000, 0)), n - 1)

\* sscanf(value, "%" SCNu64 "%256s", ...): as strtoull, a leading '-' negates
\* in 64-bit unsigned arithmetic. The digit runs drawn are below 2^64.
ScanUInt64(value) ==
    LET signed == Len(value) > 0 /\ value[1] \in {"-", "+"}
        from == IF signed THEN 2 ELSE 1
        nd == DigitRun(value, from)
        mag == Wrap64(DecimalLimbs(SubSeq(value, from, from + nd - 1)))
        rest == SubSeq(value, from + nd, Len(value))
    IN  IF nd = 0 THEN [nb_read |-> 0, val |-> U64(0), tmpbuf |-> <<>>]
        ELSE [nb_read |-> IF Len(rest) = 0 THEN 1 ELSE 2,
              val |-> IF signed /\ value[1] = "-" THEN Neg64(mag) ELSE mag,
              tmpbuf |-> rest]

\* str2duration (rbh_misc): an integer, alone (seconds) or with a unit;
\* -1 when the text is no duration
str2duration(value) ==
    LET r == ScanInt(value)
    IN  IF r.nb_read < 1 THEN -1
        ELSE IF r.nb_read = 1 THEN r.val
        ELSE IF StrCaseEq(r.tmpbuf, <<"s">>) THEN r.val
        ELSE IF StrCaseEq(r.tmpbuf, <<"m">>) THEN 60 * r.val
        ELSE -1

\* str2size (rbh_misc): digits and a binary unit; (unsigned long long)-1
\* when the text is no size
str2size(value) ==
    LET nd == DigitRun(value, 1)
        mag == DecimalValue(SubSeq(value, 1, nd))
        unit == SubSeq(value, nd + 1, Len(value))
    IN  IF nd = 0 THEN ULLONG_MINUS_ONE
        ELSE IF Len(unit) = 0 THEN mag
        ELSE IF StrCaseEq(unit, <<"k">>) THEN mag * 1024
        ELSE IF StrCaseEq(unit, <<"m">>) THEN mag * 1024 * 1024
        ELSE ULLONG_MINUS_ONE

-----------------------------------------------------------------------------
(* The scalar extractors                                                   *)

StdioNames ==
    {<<"s","t","d","o","u","t">>, <<"s","t","d","e","r","r">>,
     <<"s","y","s","l","o","g">>}

Ret(rc, target, err) == [rc |-> rc, target |-> target, err |-> err]

Lookup_NotFoundOnlyIfMandatory(item, flags) ==
    IF item.kind = "absent"
    THEN [done |-> TRUE, rc |-> IF "PFLG_MANDATORY" \in flags THEN ENOENT ELSE 0,
          err |-> IF "PFLG_MANDATORY" \in flags
                  THEN "Missing mandatory parameter" ELSE ""]
    ELSE IF item.kind # "var"
    THEN [done |-> TRUE, rc |-> EINVAL, err |-> "Error retrieving parameter value"]
    ELSE [done |-> FALSE, rc |-> 0, err |-> ""]

\* the part every extractor starts with: the lookup and the key/value read
Lookup(item, flags) ==
    IF item.kind = "absent"
    THEN [done |-> TRUE, rc |-> ENOENT,
          err |-> IF "PFLG_MANDATORY" \in flags
                  THEN "Missing mandatory parameter" ELSE ""]
    ELSE IF item.kind # "var"
    THEN [done |-> TRUE, rc |-> EINVAL, err |-> "Error retrieving parameter value"]
    ELSE [done |-> FALSE, rc |-> 0, err |-> ""]

\* the part the numeric extractors end with: options after the value
ExtraArgs(item, sink, target) ==
    IF item.extra /\ ~sink
    THEN Ret(EINVAL, target, "Unexpected options for parameter")
    ELSE Ret(0, target, "")

GetStringParam(item, flags, target_size, sink, old) ==
    LET l == Lookup(item, flags)
        target == rh_strncpy(item.value, target_size)
        arob == StrChr(target, "@")
    IN  IF l.done THEN Ret(l.rc, old, l.err)
        ELSE IF item.extra /\ ~sink
        THEN Ret(EINVAL, target, "Unexpected options for parameter")
        ELSE IF "PFLG_NOT_EMPTY" \in flags /\ EMPTY_STRING(target)
        THEN Ret(EINVAL, target, "Unexpected empty parameter")
        ELSE IF "PFLG_STDIO_ALLOWED" \in flags
                /\ \E n \in StdioNames : StrCaseEq(target, n)
        THEN Ret(0, target, "")
        ELSE IF "PFLG_ABSOLUTE_PATH" \in flags /\ ~IS_ABSOLUTE_PATH(target)
        THEN Ret(EINVAL, target, "Absolute path expected for parameter")
        ELSE IF "PFLG_NO_WILDCARDS" \in flags /\ WILDCARDS_IN(target)
        THEN Ret(EINVAL, target, "Wildcards are not allowed")
        ELSE IF "PFLG_MAIL" \in flags
                /\ (arob = 0 \/ arob = 1 \/ arob = Len(target))
        THEN Ret(EINVAL, target, "Invalid mail address")
        ELSE IF "PFLG_REMOVE_FINAL_SLASH" \in flags /\ FINAL_SLASH(target)
        THEN Ret(0, REMOVE_FINAL_SLASH(target), "")
        ELSE Ret(0, target, "")

\* str2bool (rbh_misc): 1 or 0 for the names of a boolean, letter case put
\* aside, -1 for any other text
str2bool(str) ==
    IF \E n \in {<<"1">>, <<"t","r","u","e">>, <<"y","e","s">>,
                 <<"e","n","a","b","l","e","d">>} : StrCaseEq(str, n)
    THEN 1
    ELSE IF \E n \in {<<"0">>, <<"f","a","l","s","e">>, <<"n","o">>,
                      <<"d","i","s","a","b","l","e","d">>} : StrCaseEq(str, n)
    THEN 0
    ELSE -1

\* *target is written before the options are looked at
GetBoolParam(item, flags, sink, old) ==
    LET l == Lookup(item, flags)
        tmp_bool == str2bool(item.value)
    IN  IF l.done THEN Ret(l.rc, old, l.err)
        ELSE IF tmp_bool = -1
        THEN Ret(EINVAL, old, "Invalid value: boolean expected")
        ELSE ExtraArgs(item, sink, tmp_bool # 0)

GetDurationParam(item, flags, sink, old) ==
    LET l == Lookup(item, flags)
        timeval == str2duration(item.value)
    IN  IF l.done THEN Ret(l.rc, old, l.err)
        ELSE IF timeval = -1
        THEN Ret(EINVAL, old, "Invalid value: duration expected")
        ELSE IF "PFLG_POSITIVE" \in flags /\ timeval < 0
        THEN Ret(EINVAL, old, "Positive value expected")
        ELSE IF "PFLG_NOT_NULL" \in flags /\ timeval = 0
        THEN Ret(EINVAL, old, "must not be null")
        ELSE ExtraArgs(item, sink, timeval)

GetSizeParam(item, flags, sink, old) ==
    LET l == Lookup(item, flags)
        sizeval == str2size(item.value)
    IN  IF l.done THEN Ret(l.rc, old, l.err)
        ELSE IF sizeval = ULLONG_MINUS_ONE
        THEN Ret(EINVAL, old, "Invalid value: size expected")
        ELSE IF "PFLG_NOT_NULL" \in flags /\ sizeval = 0
        THEN Ret(EINVAL, old, "must not be null")
        ELSE ExtraArgs(item, sink, sizeval)

GetIntParam(item, flags, sink, old) ==
    LET l == Lookup(item, flags)
        r == ScanInt(item.value)
    IN  IF l.done THEN Ret(l.rc, old, l.err)
        ELSE IF r.nb_read < 1
        THEN Ret(EINVAL, old, "Invalid value: integer expected")
        ELSE IF r.nb_read > 1 /\ Len(r.tmpbuf) # 0
        THEN Ret(EINVAL, old, "Invalid value: extra characters found after integer")
        ELSE IF "PFLG_POSITIVE" \in flags /\ r.val < 0
        THEN Ret(EINVAL, old, "Positive value expected")
        ELSE IF "PFLG_NOT_NULL" \in flags /\ r.val = 0
        THEN Ret(EINVAL, old, "must not be null")
        ELSE ExtraArgs(item, sink, r.val)

\* the factor of a suffix of GetInt64Param as a power of 1000, 0 for any
\* other text
Int64SuffixThousands(tmpbuf) ==
    IF StrCaseEq(tmpbuf, <<"k">>) THEN 1
    ELSE IF StrCaseEq(tmpbuf, <<"M">>) THEN 2
    ELSE IF StrCaseEq(tmpbuf, <<"G">>) THEN 3
    ELSE IF StrCaseEq(tmpbuf, <<"T">>) THEN 4
    ELSE 0

GetInt64Param(item, flags, sink, old) ==
    LET l == Lookup(item, flags)
        r == ScanUInt64(item.value)
        suffixed == r.nb_read > 1 /\ Len(r.tmpbuf) # 0
        thousands == Int64SuffixThousands(r.tmpbuf)
        intval == IF suffixed THEN TimesThousand(r.val, thousands) ELSE r.val
    IN  IF l.done THEN Ret(l.rc, old, l.err)
        ELSE IF r.nb_read < 1
        THEN Ret(EINVAL, old, "Invalid value: integer expected")
        ELSE IF suffixed /\ thousands = 0
        THEN Ret(EINVAL, old, "Invalid suffix")
        ELSE IF "PFLG_NOT_NULL" \in flags /\ intval = U64(0)
        THEN Ret(EINVAL, old, "must not be null")
        ELSE ExtraArgs(item, sink, intval)

\* sscanf(value, "%lf%256s", ...) on the values drawn, which are integers
GetFloatParam(item, flags, sink, old) ==
    LET l == Lookup(item, flags)
        r == ScanInt(item.value)
    IN  IF l.done THEN Ret(l.rc, old, l.err)
        ELSE IF r.nb_read < 1
        THEN Ret(EINVAL, old, "Invalid value: float expected")
        ELSE IF r.nb_read > 1
                /\ \/ ("PFLG_ALLOW_PCT_SIGN" \notin flags /\ Len(r.tmpbuf) # 0)
                   \/ ("PFLG_ALLOW_PCT_SIGN" \in flags /\ r.tmpbuf # <<"%">>)
        THEN Ret(EINVAL, old, "Invalid value: extra characters found after float")
        ELSE IF "PFLG_POSITIVE" \in flags /\ r.val < 0
        THEN Ret(EINVAL, old, "Positive value expected")
        ELSE IF "PFLG_NOT_NULL" \in flags /\ r.val = 0
        THEN Ret(EINVAL, old, "must not be null")
        ELSE ExtraArgs(item, sink, r.val)

StringFlags ==
    {"PFLG_MANDATORY", "PFLG_NOT_EMPTY", "PFLG_NOT_NULL", "PFLG_ABSOLUTE_PATH",
     "PFLG_NO_WILDCARDS", "PFLG_MAIL", "PFLG_STDIO_ALLOWED",
     "PFLG_REMOVE_FINAL_SLASH"}
NumberFlags ==
    {"PFLG_MANDATORY", "PFLG_POSITIVE", "PFLG_NOT_NULL", "PFLG_ALLOW_PCT_SIGN"}

\* the values a configuration file gives a string parameter and a number
StringValues ==
    SeqsUpTo({"/", "a", "*", "@"}, MaxStrLen)
        \cup StdioNames \cup {<<"S","T","D","O","U","T">>}
NumberValues == SeqsUpTo({"-", "0", "1", "k", "m", "%"}, MaxStrLen)

\* values of a 64-bit parameter next to 2^64 = 18446744073709551616
Int64Values ==
    {<<"2", "G">>, <<"3", "t">>, <<"9", "T", "b">>,
     <<"1","8","4","4","6","7","4","4","0","7","3","7","0","9","5","5","1","6","1","5">>,
     <<"1","8","4","4","6","7","4","4","0","7","3","7","0","9","5","5","1","k">>,
     <<"1","8","4","4","6","7","4","4","0","7","3","7","0","9","5","5","2","k">>,
     <<"1","8","4","4","6","7","4","4","T">>,
     <<"1","8","4","4","6","7","4","5","T">>}

BoolValues ==
    {<<"1">>, <<"0">>, <<"y","e","s">>, <<"N","o">>, <<"T","R","U","E">>,
     <<"d","i","s","a","b","l","e","d">>, <<"2">>, <<"o","n">>, <<>>}

\* what the target holds before the call
OldString == <<"o", "l", "d">>
OldNumber == 7

\* the state after a call of extractor fn that returned r
ParCalled(fn, item, flags, sink, target_size, old, r) ==
    [fn |-> fn, item |-> item, flags |-> flags, sink |-> sink,
     target_size |-> target_size, old |-> old, target |-> r.target,
     rc |-> r.rc, err |-> r.err]

CallGetStringParam ==
    /\ par.fn = "none"
    /\ \E item \in {Absent, NotAVar} \cup VarItems(StringValues),
          flags \in SUBSET StringFlags, sink \in BOOLEAN,
          target_size \in {MaxStrLen, 8} :
            par' = ParCalled("GetStringParam", item, flags, sink, target_size, OldString,
                             GetStringParam(item, flags, target_size, sink, OldString))
    /\ UNCHANGED <<modules, rsp, drv, cri, polVars>>

CallGetBoolParam ==
    /\ par.fn = "none"
    /\ \E item \in {Absent, NotAVar} \cup VarItems(BoolValues),
          flags \in SUBSET {"PFLG_MANDATORY"}, sink \in BOOLEAN, old \in BOOLEAN :
            par' = ParCalled("GetBoolParam", item, flags, sink, 0, old,
                             GetBoolParam(item, flags, sink, old))
    /\ UNCHANGED <<modules, rsp, drv, cri, polVars>>

CallGetDurationParam ==
    /\ par.fn = "none"
    /\ \E item \in {Absent, NotAVar} \cup VarItems(NumberValues),
          flags \in SUBSET NumberFlags, sink \in BOOLEAN :
            par' = ParCalled("GetDurationParam", item, flags, sink, 0, OldNumber,
                             GetDurationParam(item, flags, sink, OldNumber))
    /\ UNCHANGED <<modules, rsp, drv, cri, polVars>>

CallGetSizeParam ==
    /\ par.fn = "none"
    /\ \E item \in {Absent, NotAVar} \cup VarItems(NumberValues),
          flags \in SUBSET NumberFlags, sink \in BOOLEAN :
            par' = ParCalled("GetSizeParam", item, flags, sink, 0, OldNumber,
                             GetSizeParam(item, flags, sink, OldNumber))
    /\ UNCHANGED <<modules, rsp, drv, cri, polVars>>

CallGetIntParam ==
    /\ par.fn = "none"
    /\ \E item \in {Absent, NotAVar} \cup VarItems(NumberValues),
          flags \in SUBSET NumberFlags, sink \in BOOLEAN :
            par' = ParCalled("GetIntParam", item, flags, sink, 0, OldNumber,
                             GetIntParam(item, flags, sink, OldNumber))
    /\ UNCHANGED <<modules, rsp, drv, cri, polVars>>

CallGetInt64Param ==
    /\ par.fn = "none"
    /\ \E item \in {Absent, NotAVar} \cup VarItems(NumberValues \cup Int64Values),
          flags \in SUBSET NumberFlags, sink \in BOOLEAN :
            par' = ParCalled("GetInt64Param", item, flags, sink, 0, U64(OldNumber),
                             GetInt64Param(item, flags, sink, U64(OldNumber)))
    /\ UNCHANGED <<modules, rsp, drv, cri, polVars>>

CallGetFloatParam ==
    /\ par.fn = "none"
    /\ \E item \in {Absent, NotAVar} \cup VarItems(NumberValues),
          flags \in SUBSET NumberFlags, sink \in BOOLEAN :
            par' = ParCalled("GetFloatParam", item, flags, sink, 0, OldNumber,
                             GetFloatParam(item, flags, sink, OldNumber))
    /\ UNCHANGED <<modules, rsp, drv, cri, polVars>>

\* the caller takes the result and is ready for its next call
ParamReturn ==
    /\ par.fn # "none"
    /\ par' = ParIdle
    /\ UNCHANGED <<modules, rsp, drv, cri, polVars>>

ParamInit ==
    /\ modules = [i \in 1 .. NModules |-> MODULE_MASK_ALWAYS]
    /\ drv = DrvIdle
    /\ par = ParIdle
    /\ rsp = RspIdle
    /\ cri = CriIdle
    /\ PolIdle

ParamNext ==
    \/ CallGetStringParam
    \/ CallGetBoolParam
    \/ CallGetDurationParam
    \/ CallGetSizeParam
    \/ CallGetIntParam
    \/ CallGetInt64Param
    \/ CallGetFloatParam
    \/ ParamReturn

SpecParam == ParamInit /\ [][ParamNext]_vars

-----------------------------------------------------------------------------
(* read_scalar_params                                                      *)

\* cfg_is_err(_rc, _flgs)
cfg_is_err_AnyNotFound(rc, flags) == rc # 0
cfg_is_err(rc, flags) ==
    \/ rc # 0 /\ rc # ENOENT
    \/ rc = ENOENT /\ "PFLG_MANDATORY" \in flags

\* params[i].ptrsize of the string descriptors
ParamPtrSize == 8

\* what *params[i].ptr holds before the call
OldTarget(type) ==
    IF type = "PT_STRING" THEN OldString
    ELSE IF type = "PT_BOOL" THEN TRUE
    ELSE IF type = "PT_INT64" THEN U64(OldNumber)
    ELSE OldNumber

\* the extractor read_scalar_params calls for a descriptor, extra_args_tab
\* and nb_extra_args being NULL
ExtractorFor(d, old) ==
    CASE d.type = "PT_STRING" -> GetStringParam(d.item, d.flags, ParamPtrSize, FALSE, old)
      [] d.type = "PT_BOOL" -> GetBoolParam(d.item, d.flags, FALSE, old)
      [] d.type = "PT_DURATION" -> GetDurationParam(d.item, d.flags, FALSE, old)
      [] d.type = "PT_SIZE" -> GetSizeParam(d.item, d.flags, FALSE, old)
      [] d.type = "PT_INT" -> GetIntParam(d.item, d.flags, FALSE, old)
      [] d.type = "PT_INT64" -> GetInt64Param(d.item, d.flags, FALSE, old)
      [] d.type = "PT_FLOAT" -> GetFloatParam(d.item, d.flags, FALSE, old)

\* the state of the walk: the reads made so far and the targets
Walk(reads, targets, rc, msgout) ==
    [reads |-> reads, targets |-> targets, rc |-> rc, msgout |-> msgout]

\* the loop of read_scalar_params from descriptor i on
RECURSIVE ReadFrom(_, _, _)

\* descriptor i once its extractor returned r
ParamRead(params, i, w, r) ==
    IF cfg_is_err(r.rc, params[i].flags)
    THEN Walk(Append(w.reads, [i |-> i, rc |-> r.rc]),
              [w.targets EXCEPT ![i] = r.target], r.rc, r.err)
    ELSE ReadFrom(params, i + 1,
                  Walk(Append(w.reads, [i |-> i, rc |-> r.rc]),
                       [w.targets EXCEPT ![i] = r.target], 0, r.err))

ReadFrom(params, i, w) ==
    IF i > Len(params) THEN [w EXCEPT !.rc = 0]
    ELSE IF params[i].type = "PT_TYPE"
    THEN [w EXCEPT !.rc = EINVAL, !.msgout = "Unexpected type for %s parameter (type)"]
    ELSE IF params[i].type \in {"PT_STRING", "PT_BOOL", "PT_DURATION", "PT_SIZE",
                                "PT_INT", "PT_INT64", "PT_FLOAT"}
    THEN ParamRead(params, i, w, ExtractorFor(params[i], w.targets[i]))
    ELSE ReadFrom(params, i + 1, w)

\* what msgout holds at the call
StaleMsg == "(previous content)"

read_scalar_params(params) ==
    ReadFrom(params, 1,
             Walk(<<>>, [i \in 1 .. Len(params) |-> OldTarget(params[i].type)], 0,
                  StaleMsg))

\* the descriptors of a module and what its block holds for each
MaxParams == 2
ParamTypes ==
    {"PT_STRING", "PT_BOOL", "PT_DURATION", "PT_SIZE", "PT_INT", "PT_INT64",
     "PT_FLOAT", "PT_TYPE", "PT_CMD"}
ParamItems ==
    {Absent, NotAVar, [kind |-> "var", value |-> <<"1">>, extra |-> FALSE],
     [kind |-> "var", value |-> <<"x">>, extra |-> TRUE]}
ParamDescriptors ==
    {[type |-> t, flags |-> f, item |-> it] :
        t \in ParamTypes, f \in {{}, {"PFLG_MANDATORY"}}, it \in ParamItems}

RspCalled(params, w) ==
    [fn |-> "read_scalar_params", params |-> params, reads |-> w.reads,
     targets |-> w.targets, rc |-> w.rc, msgout |-> w.msgout]

CallReadScalarParams ==
    /\ rsp.fn = "none"
    /\ \E n \in 0 .. MaxParams :
          \E params \in [1 .. n -> ParamDescriptors] :
              rsp' = RspCalled(params, read_scalar_params(params))
    /\ UNCHANGED <<modules, drv, par, cri, polVars>>

\* the caller takes the result and is ready for its next call
ScalarReturn ==
    /\ rsp.fn # "none"
    /\ rsp' = RspIdle
    /\ UNCHANGED <<modules, drv, par, cri, polVars>>

ScalarInit ==
    /\ modules = [i \in 1 .. NModules |-> MODULE_MASK_ALWAYS]
    /\ drv = DrvIdle
    /\ par = ParIdle
    /\ rsp = RspIdle
    /\ cri = CriIdle
    /\ PolIdle

ScalarNext ==
    \/ CallReadScalarParams
    \/ ScalarReturn

SpecScalar == ScalarInit /\ [][ScalarNext]_vars

-----------------------------------------------------------------------------
(* The criteria compiler                                                   *)

\* str2int (rbh_misc): an integer and nothing after it; -1 otherwise
str2int(value) ==
    LET r == ScanInt(value)
    IN  IF r.nb_read = 1 THEN r.val ELSE -1

\* str2type (rbh_misc): the file type a token names, TYPE_NONE for any other
str2type(value) ==
    CASE value = <<"f","i","l","e">> -> "TYPE_FILE"
      [] value = <<"d","i","r","e","c","t","o","r","y">> -> "TYPE_DIR"
      [] value = <<"s","y","m","l","i","n","k">> -> "TYPE_LINK"
      [] value = <<"c","h","r">> -> "TYPE_CHR"
      [] value = <<"b","l","k">> -> "TYPE_BLK"
      [] value = <<"f","i","f","o">> -> "TYPE_FIFO"
      [] value = <<"s","o","c","k">> -> "TYPE_SOCK"
      [] OTHER -> "TYPE_NONE"

SLASH_IN(str) == Contains(str, "/")

\* ANY_LEVEL_MATCH: strstr(str, "**") != NULL
StarStarAt(str, k) == k >= 1 /\ k + 1 <= Len(str) /\ str[k] = "*" /\ str[k + 1] = "*"
ANY_LEVEL_MATCH_Never(str) == FALSE
ANY_LEVEL_MATCH(str) == \E k \in 1 .. Len(str) : StarStarAt(str, k)

\* strstr(str + from - 1, "**"): the index of the first "**" at or after
\* position from, 0 when there is none
RECURSIVE StrStrStarStar(_, _)
StrStrStarStar(str, from) ==
    IF from + 1 > Len(str) THEN 0
    ELSE IF StarStarAt(str, from) THEN from
    ELSE StrStrStarStar(str, from + 1)

\* str_replace (rbh_misc): every occurrence of a one- or two-character
\* pattern replaced, left to right
RECURSIVE str_replace(_, _, _)
str_replace(str, pattern, by) ==
    IF Len(str) < Len(pattern) THEN str
    ELSE IF SubSeq(str, 1, Len(pattern)) = pattern
    THEN by \o str_replace(SubSeq(str, Len(pattern) + 1, Len(str)), pattern, by)
    ELSE <<str[1]>> \o str_replace(SubSeq(str, 2, Len(str)), pattern, by)

\* the checking loop of process_any_level_condition, curr being the index
\* of a "**" (0: no more): TRUE when every "**" is well placed
RECURSIVE AnyLevelLoop(_, _)
AnyLevelLoop(regexpr, curr) ==
    IF curr = 0 THEN TRUE
    ELSE IF curr > 1 /\ regexpr[curr - 1] # "/" THEN FALSE
    ELSE IF curr + 2 <= Len(regexpr) /\ regexpr[curr + 2] # "/" THEN FALSE
    ELSE AnyLevelLoop(regexpr, StrStrStarStar(regexpr, curr + 2))

process_any_level_condition_KeepQuestionMark(regexpr) ==
    IF ~AnyLevelLoop(regexpr, StrStrStarStar(regexpr, 1))
    THEN [rc |-> EINVAL, regexpr |-> regexpr,
          err |-> "Character before and after '**' must be a '/' in '%s'"]
    ELSE [rc |-> 0, err |-> "",
          regexpr |-> str_replace(regexpr, <<"*", "*">>, <<"*">>)]
process_any_level_condition(regexpr) ==
    IF ~AnyLevelLoop(regexpr, StrStrStarStar(regexpr, 1))
    THEN [rc |-> EINVAL, regexpr |-> regexpr,
          err |-> "Character before and after '**' must be a '/' in '%s'"]
    ELSE [rc |-> 0, err |-> "",
          regexpr |-> str_replace(str_replace(regexpr, <<"?">>, <<"[", "!", "/", "]">>),
                                  <<"*", "*">>, <<"*">>)]

syntax2conf_comparator(op) ==
    CASE op = "OP_EQUAL" -> "COMP_EQUAL"
      [] op = "OP_DIFF" -> "COMP_DIFF"
      [] op = "OP_GT" -> "COMP_GRTHAN"
      [] op = "OP_GT_EQ" -> "COMP_GRTHAN_EQ"
      [] op = "OP_LT" -> "COMP_LSTHAN"
      [] op = "OP_LT_EQ" -> "COMP_LSTHAN_EQ"
      [] OTHER -> "COMP_NONE"

\* smi == NULL: no status manager in this context
NoSmi == [smi_index |-> -1, status |-> {}]

\* a status manager instance: its index and the status names of its manager
TheSmi == [smi_index |-> 1, status |-> {<<"a">>}]

\* SMI_MASK(smi_index): the attribute bit of a status manager instance
SmiMaskShift == 4
SMI_MASK(smi_index) == Pow2(SmiMaskShift + smi_index)

\* get_status_str(smi->sm, str) != NULL
get_status_str(smi, str) == str \in smi.status

\* the length of p_triplet->val.str and of p_triplet->xattr_name
TripletStrSize == 16

\* One outcome of criteria2condition; err is the format of the message
\* written to err_msg, its %s standing for key_value->varname and varvalue. crashed: the call did not return.
CritRet(rc, triplet, mask, err) ==
    [rc |-> rc, triplet |-> triplet, mask |-> mask, err |-> err,
     crashed |-> FALSE, ub_hit |-> FALSE]

\* sprintf(<string literal>, key_value->varname) then return EINVAL: the
\* write goes to the literal, not to err_msg. The behaviour is undefined:
\* either the write faults and the call never returns, or it goes through and
\* the call returns EINVAL with err_msg as it was.
SprintfToLiteral(ub, triplet, mask, err) ==
    [rc |-> EINVAL, triplet |-> triplet, mask |-> mask, err |-> err,
     crashed |-> (ub = "fault"), ub_hit |-> TRUE]

\* CHECK_INT_VALUE(_v, _flg); signed: the value's C type is signed
CheckIntValue(v, flags, signed) ==
    IF "PFLG_POSITIVE" \in flags /\ signed /\ v < 0
    THEN "Positive value expected for %s criteria"
    ELSE IF "PFLG_NOT_NULL" \in flags /\ v = 0
    THEN "Null value not allowed for %s criteria"
    ELSE ""

\* lines 1110-1120: "> or < for a non comparable item"
IllegalComparator_NoCheck(flags, op) == FALSE
IllegalComparator(flags, op) ==
    /\ "PFLG_COMPARABLE" \notin flags
    /\ op # "COMP_EQUAL"
    /\ op # "COMP_DIFF"
    /\ op # "COMP_LIKE"
    /\ op # "COMP_UNLIKE"

\* lines 1013-1016: the comparator of a string that holds wildcards
WildcardComparator_Always(op, wild) ==
    IF op = "COMP_EQUAL" THEN "COMP_LIKE"
    ELSE IF op = "COMP_DIFF" THEN "COMP_UNLIKE"
    ELSE op
WildcardComparator(op, wild) ==
    IF ~wild THEN op
    ELSE IF op = "COMP_EQUAL" THEN "COMP_LIKE"
    ELSE IF op = "COMP_DIFF" THEN "COMP_UNLIKE"
    ELSE op

\* criteria2condition. mask_in is *p_attr_mask at the call, err_in the
\* content of err_msg at the call, ub the way an undefined write ends.
criteria2condition(key_value, p_triplet, mask_in, err_in, crit, type, attr_mask, flags, smi, ub) ==
    LET mask == IF "PFLG_STATUS" \in flags
                THEN BitOr(BitOr(mask_in, SMI_MASK(smi.smi_index)), attr_mask)
                ELSE BitOr(mask_in, attr_mask)
        t0 == [p_triplet EXCEPT !.crit = crit,
                                !.op = syntax2conf_comparator(key_value.op_type)]
        value == key_value.varvalue
        Last(t, err) ==
            IF err # "" THEN CritRet(EINVAL, t, mask, err)
            ELSE IF IllegalComparator(flags, t.op)
            THEN CritRet(EINVAL, t, mask, "Illegal comparator for %s criteria: == or != expected")
            ELSE CritRet(0, t, mask, "")
    IN  IF "PFLG_STATUS" \in flags /\ smi = NoSmi
        THEN CritRet(EINVAL, p_triplet, mask_in, "'%s' criteria is not expected in this context")
        ELSE CASE type = "PT_STRING" ->
            LET wild == WILDCARDS_IN(value)
                t1 == [t0 EXCEPT !.op = WildcardComparator(t0.op, wild),
                                 !.val = rh_strncpy(value, TripletStrSize)]
                dot == StrChr(key_value.varname, ".")
                t2 == [t1 EXCEPT !.xattr_name =
                          rh_strncpy(SubSeq(key_value.varname, dot + 1,
                                            Len(key_value.varname)), TripletStrSize)]
                any == process_any_level_condition(t1.val)
            IN  IF "PFLG_NOT_EMPTY" \in flags /\ EMPTY_STRING(value)
                THEN SprintfToLiteral(ub, t0, mask, err_in)
                ELSE IF "PFLG_NO_SLASH" \in flags /\ SLASH_IN(value)
                THEN SprintfToLiteral(ub, t0, mask, err_in)
                ELSE IF wild /\ "PFLG_NO_WILDCARDS" \in flags
                THEN CritRet(EINVAL, t0, mask, "No wildcard is allowed in %s criteria")
                ELSE IF "PFLG_XATTR" \in flags
                THEN Last(t2, "")
                ELSE IF "PFLG_STATUS" \in flags
                THEN IF ~get_status_str(smi, t1.val) /\ Len(t1.val) > 0
                     THEN CritRet(EINVAL, t1, mask, "Invalid status '%s' for '%s' status manager: allowed values are %s")
                     ELSE Last(t1, "")
                ELSE IF ANY_LEVEL_MATCH(t1.val)
                THEN IF "PFLG_ALLOW_ANY_DEPTH" \in flags
                     THEN IF any.rc # 0
                          THEN CritRet(any.rc, t1, mask, any.err)
                          ELSE Last([t1 EXCEPT !.val = any.regexpr,
                                               !.flags = @ \cup {"CMP_FLG_ANY_LEVEL"}], "")
                     ELSE SprintfToLiteral(ub, t1, mask, err_in)
                ELSE Last(t1, "")
          [] type = "PT_SIZE" ->
            LET v == str2size(value)
                t1 == [t0 EXCEPT !.val = v]
            IN  IF v = ULLONG_MINUS_ONE
                THEN CritRet(EINVAL, t1, mask, "%s criteria: invalid format for size: '%s'")
                ELSE Last(t1, CheckIntValue(v, flags, FALSE))
          [] type = "PT_INT" ->
            LET v == str2int(value)
                t1 == [t0 EXCEPT !.val = v]
            IN  IF v = -1
                THEN CritRet(EINVAL, t1, mask, "%s criteria: integer expected: '%s'")
                ELSE Last(t1, CheckIntValue(v, flags, TRUE))
          [] type = "PT_DURATION" ->
            LET v == str2duration(value)
                t1 == [t0 EXCEPT !.val = v]
            IN  IF v = -1
                THEN CritRet(EINVAL, t1, mask, "%s criteria: duration expected: '%s'")
                ELSE Last(t1, CheckIntValue(v, flags, TRUE))
          [] type = "PT_TYPE" ->
            LET v == str2type(value)
                t1 == [t0 EXCEPT !.val = v]
            IN  IF v = "TYPE_NONE"
                THEN CritRet(EINVAL, t1, mask, "Illegal condition on type: file, directory, ... expected")
                ELSE Last(t1, "")
          [] OTHER -> CritRet(ENOTSUP, t0, mask, "Unsupported criteria type for %s")

\* the inputs of the compiler
SyntaxOps == {"OP_EQUAL", "OP_DIFF", "OP_GT", "OP_GT_EQ", "OP_LT", "OP_LT_EQ", "OP_CMD"}
CritStringFlags ==
    {"PFLG_NOT_EMPTY", "PFLG_NO_SLASH", "PFLG_NO_WILDCARDS", "PFLG_XATTR",
     "PFLG_STATUS", "PFLG_ALLOW_ANY_DEPTH", "PFLG_COMPARABLE"}
CritNumberFlags == {"PFLG_POSITIVE", "PFLG_NOT_NULL", "PFLG_COMPARABLE"}
CritStringValues ==
    SeqsUpTo({"a", "/", "*", "?"}, MaxStrLen)
        \cup {<<"[">>, <<"a", "[">>, <<"?", "/", "*", "*">>, <<"*", "*", "/", "*", "*">>}
CritNumberValues == SeqsUpTo({"-", "0", "1", "k"}, MaxStrLen)
CritTypeValues == {<<"f","i","l","e">>, <<"s","o","c","k">>, <<"a">>, <<>>}
UBOutcomes == {"fault", "passes"}

\* the name under which a criterion with these flags appears in a condition
VarNameFor(flags) ==
    IF "PFLG_XATTR" \in flags THEN <<"x", ".", "k">> ELSE <<"c">>

\* the state after criteria2condition returned (or did not return) r
CriCalled(key_value, type, flags, smi, attr_mask, mask_in, ub, r) ==
    [fn |-> "criteria2condition", key_value |-> key_value, type |-> type,
     flags |-> flags, smi |-> smi, attr_mask |-> attr_mask, mask_in |-> mask_in,
     ub |-> IF r.ub_hit THEN ub ELSE "none",
     rc |-> r.rc, triplet |-> r.triplet, mask |-> r.mask, err |-> r.err,
     crashed |-> r.crashed]

CompileCondition(type, flagset, values) ==
    \E flags \in SUBSET flagset, value \in values, op \in SyntaxOps,
       smi \in {NoSmi, TheSmi}, ub \in UBOutcomes :
        LET kv == [varname |-> VarNameFor(flags), op_type |-> op, varvalue |-> value]
        IN  cri' = CriCalled(kv, type, flags, smi, 1, 0, ub,
                             criteria2condition(kv, FreshTriplet, 0, "", "crit", type,
                                                1, flags, smi, ub))

CompileStringCondition ==
    /\ cri.fn = "none"
    /\ CompileCondition("PT_STRING", CritStringFlags, CritStringValues)
    /\ UNCHANGED <<modules, rsp, drv, par, polVars>>

CompileNumberCondition ==
    /\ cri.fn = "none"
    /\ \E type \in {"PT_SIZE", "PT_INT", "PT_DURATION"} :
          CompileCondition(type, CritNumberFlags, CritNumberValues)
    /\ UNCHANGED <<modules, rsp, drv, par, polVars>>

CompileOtherCondition ==
    /\ cri.fn = "none"
    /\ \E type \in {"PT_TYPE", "PT_BOOL"} :
          CompileCondition(type, {"PFLG_COMPARABLE"}, CritTypeValues)
    /\ UNCHANGED <<modules, rsp, drv, par, polVars>>

\* the caller takes the result and is ready for its next call
CriteriaReturn ==
    /\ cri.fn # "none"
    /\ ~cri.crashed
    /\ cri' = CriIdle
    /\ UNCHANGED <<modules, rsp, drv, par, polVars>>

CriteriaInit ==
    /\ modules = [i \in 1 .. NModules |-> MODULE_MASK_ALWAYS]
    /\ drv = DrvIdle
    /\ par = ParIdle
    /\ rsp = RspIdle
    /\ cri = CriIdle
    /\ PolIdle

CriteriaNext ==
    \/ CompileStringCondition
    \/ CompileNumberCondition
    \/ CompileOtherCondition
    \/ CriteriaReturn

SpecCriteria == CriteriaInit /\ [][CriteriaNext]_vars

-----------------------------------------------------------------------------
(* Bool nodes and triplets in memory                                       *)

NULL == 0
EFAULT == 14

\* the content of a field nobody wrote yet
Indeterminate == -1

\* bool_node_t. content_u is a union: condition shares its storage with
\* bool_expr.bool_op, so writing one leaves the other without a value;
\* expr1, expr2 and owner lie after them.
BlankNode ==
    [node_type |-> "?", bool_op |-> "?", expr1 |-> Indeterminate,
     expr2 |-> Indeterminate, owner |-> Indeterminate, condition |-> Indeterminate]

BlankTriplet == [FreshTriplet EXCEPT !.flags = {"?"}]

\* One allocation. storage: "heap" when it came from malloc, "static" when it
\* is part of a larger object of the caller (a fileset_list entry, a local
\* variable). for: the root of the class or tree it was allocated for.
\* nfree: how many times free() was called on it.
NewCell(kind, storage, for) ==
    [kind |-> kind, storage |-> storage, for |-> for, nfree |-> 0,
     node |-> BlankNode, triplet |-> BlankTriplet]

\* The memory as a call sees it. budget: the number of malloc calls that
\* will still succeed (negative: all of them). sprintf: the way an undefined
\* write ends. ub: undefined behaviour has happened.
Heap(cells, budget, for, sprintf) ==
    [mem |-> cells, budget |-> budget, for |-> for, sprintf |-> sprintf, ub |-> FALSE]

malloc(h, kind) ==
    IF h.budget = 0
    THEN [h |-> h, p |-> NULL]
    ELSE [h |-> [h EXCEPT !.mem = Append(@, NewCell(kind, "heap", h.for)),
                          !.budget = IF @ > 0 THEN @ - 1 ELSE @],
          p |-> Len(h.mem) + 1]

IsCell(h, p) == p \in 1 .. Len(h.mem)

\* free(p): free(NULL) does nothing; freeing an indeterminate pointer, a
\* freed block or something malloc did not return is undefined
free(h, p) ==
    IF p = NULL THEN h
    ELSE IF ~IsCell(h, p) THEN [h EXCEPT !.ub = TRUE]
    ELSE [h EXCEPT !.mem[p].nfree = @ + 1,
                   !.ub = @ \/ h.mem[p].nfree > 0 \/ h.mem[p].storage # "heap"]

Node(h, p) == h.mem[p].node
SetNode(h, p, n) == [h EXCEPT !.mem[p].node = n]

\* what a builder returns: its code, the memory, *p_attr_mask and err_msg
\* (the format of each message written, in order)
BRet(rc, h, mask, err) == [rc |-> rc, h |-> h, mask |-> mask, err |-> err]

syntax2conf_boolop(boolop) ==
    CASE boolop = "BOOL_OP_NOT" -> "BOOL_NOT"
      [] boolop = "BOOL_OP_AND" -> "BOOL_AND"
      [] boolop = "BOOL_OP_OR" -> "BOOL_OR"
      [] OTHER -> "BOOL_ERR"

\* criteria_descr and str2criteria: the criteria the conditions below use
criteria_descr ==
    [CRITERIA_SIZE |-> [type |-> "PT_SIZE", attr_mask |-> 1,
                        parsing_flags |-> {"PFLG_COMPARABLE"}],
     CRITERIA_FILENAME |-> [type |-> "PT_STRING", attr_mask |-> 2,
                            parsing_flags |-> {"PFLG_NOT_EMPTY", "PFLG_NO_SLASH"}],
     CRITERIA_STATUS |-> [type |-> "PT_STRING", attr_mask |-> 0,
                          parsing_flags |-> {"PFLG_STATUS"}]]

str2criteria(varname) ==
    CASE varname = <<"s", "i", "z", "e">> -> "CRITERIA_SIZE"
      [] varname = <<"n", "a", "m", "e">> -> "CRITERIA_FILENAME"
      [] varname = <<"s", "t", "a", "t", "u", "s">> -> "CRITERIA_STATUS"
      [] OTHER -> "NO_CRITERIA"

interpret_condition(key_value, p_triplet, mask_in, smi, ub) ==
    LET crit == str2criteria(key_value.varname)
    IN  IF crit = "NO_CRITERIA"
        THEN CritRet(EINVAL, p_triplet, mask_in, "Unknown or unsupported criteria '%s'")
        ELSE criteria2condition(key_value, [p_triplet EXCEPT !.flags = {}], mask_in, "",
                                crit, criteria_descr[crit].type,
                                criteria_descr[crit].attr_mask,
                                criteria_descr[crit].parsing_flags, smi, ub)

\* the errmem label
ErrMem(h, mask) == BRet(ENOMEM, h, mask, <<"Could not allocate memory">>)

\* the free_expr1 / free_set1 label, r being what the failed child returned
FreeExpr1(r, out) ==
    BRet(r.rc, free(r.h, Node(r.h, out).expr1), r.mask, r.err)

\* the free_expr2 / free_set2 label, falling through to the one above
FreeExpr2(r, out) ==
    BRet(r.rc, free(free(r.h, Node(r.h, out).expr2), Node(r.h, out).expr1),
         r.mask, r.err)

\* the result of a node whose last child returned r
AfterLastChild(r, out, second) ==
    IF r.rc = 0 THEN r
    ELSE IF second THEN FreeExpr2(r, out)
    ELSE FreeExpr1(r, out)

\* the node at out made a leaf holding the triplet at p
SetCondition(h, out, p) ==
    SetNode(h, out, [Node(h, out) EXCEPT !.node_type = "NODE_CONDITION",
                                         !.condition = p,
                                         !.bool_op = "?"])

\* the node at out made an interior node
SetInterior(h, out, node_type, bool_op) ==
    SetNode(h, out, [Node(h, out) EXCEPT !.node_type = node_type,
                                         !.bool_op = bool_op,
                                         !.condition = Indeterminate])

SetOwnerExpr1_NotOwner(h, out, p) ==
    SetNode(h, out, [Node(h, out) EXCEPT !.owner = 0, !.expr1 = p])
SetOwnerExpr1(h, out, p) ==
    SetNode(h, out, [Node(h, out) EXCEPT !.owner = 1, !.expr1 = p])

SetExpr2(h, out, p) == SetNode(h, out, [Node(h, out) EXCEPT !.expr2 = p])

\* BOOL_CONDITION once interpret_condition returned r for the triplet at p
ConditionInterpreted(h, p, r, err) ==
    LET h1 == [h EXCEPT !.mem[p].triplet = r.triplet, !.ub = @ \/ r.crashed]
    IN  IF r.rc # 0
        THEN BRet(r.rc, free(h1, p), r.mask, IF r.ub_hit THEN err ELSE <<r.err>>)
        ELSE BRet(0, h1, r.mask, err)

\* BOOL_CONDITION once malloc returned m
BuildCondition(m, e, out, mask, err, smi) ==
    IF m.p = NULL
    THEN ErrMem(SetCondition(m.h, out, NULL), mask)
    ELSE ConditionInterpreted(SetCondition(m.h, out, m.p), m.p,
                              interpret_condition(e.key_value, m.h.mem[m.p].triplet,
                                                  mask, smi, m.h.sprintf),
                              err)

\* build_bool_expr; out is p_out_node, err the content of err_msg
RECURSIVE build_bool_expr(_, _, _, _, _, _)

\* BOOL_UNARY once malloc returned m for expr1
BuildUnary_Expr2Unset(m, e, out, mask, err, smi) ==
    IF m.p = NULL
    THEN ErrMem(SetOwnerExpr1(m.h, out, NULL), mask)
    ELSE AfterLastChild(build_bool_expr(SetOwnerExpr1(m.h, out, m.p),
                                        e.expr1, m.p, mask, err, smi),
                        out, FALSE)
BuildUnary(m, e, out, mask, err, smi) ==
    IF m.p = NULL
    THEN ErrMem(SetOwnerExpr1(m.h, out, NULL), mask)
    ELSE AfterLastChild(build_bool_expr(SetExpr2(SetOwnerExpr1(m.h, out, m.p), out, NULL),
                                        e.expr1, m.p, mask, err, smi),
                        out, FALSE)

BuildSecond_FreshMask(m, r1, e, out, smi) ==
    IF m.p = NULL
    THEN ErrMem(SetExpr2(m.h, out, NULL), r1.mask)
    ELSE AfterLastChild(build_bool_expr(SetExpr2(m.h, out, m.p), e.expr2, m.p,
                                        0, r1.err, smi),
                        out, TRUE)

\* BOOL_BINARY once malloc returned m for expr2, the first child having
\* returned r1
BuildSecond(m, r1, e, out, smi) ==
    IF m.p = NULL
    THEN ErrMem(SetExpr2(m.h, out, NULL), r1.mask)
    ELSE AfterLastChild(build_bool_expr(SetExpr2(m.h, out, m.p), e.expr2, m.p,
                                        r1.mask, r1.err, smi),
                        out, TRUE)

\* BOOL_BINARY once the first child returned r1
AfterFirstChild(r1, e, out, smi) ==
    IF r1.rc # 0 THEN FreeExpr1(r1, out)
    ELSE BuildSecond(malloc(r1.h, "node"), r1, e, out, smi)

\* BOOL_BINARY once malloc returned m for expr1
BuildBinary(m, e, out, mask, err, smi) ==
    IF m.p = NULL
    THEN ErrMem(SetOwnerExpr1(m.h, out, NULL), mask)
    ELSE AfterFirstChild(build_bool_expr(SetOwnerExpr1(m.h, out, m.p), e.expr1, m.p,
                                         mask, err, smi),
                         e, out, smi)

\* an interior node: its operator converted, then its children built
BuildInterior(h, e, out, mask, err, smi, node_type) ==
    IF syntax2conf_boolop(e.oper) = "BOOL_ERR"
    THEN BRet(EINVAL, SetInterior(h, out, node_type, "BOOL_ERR"), mask,
              <<"Unexpected boolean operator in expression">>)
    ELSE IF node_type = "NODE_UNARY_EXPR"
    THEN BuildUnary(malloc(SetInterior(h, out, node_type, syntax2conf_boolop(e.oper)),
                           "node"),
                    e, out, mask, err, smi)
    ELSE BuildBinary(malloc(SetInterior(h, out, node_type, syntax2conf_boolop(e.oper)),
                            "node"),
                     e, out, mask, err, smi)

build_bool_expr(h, e, out, mask, err, smi) ==
    CASE e.type = "BOOL_CONDITION" ->
            BuildCondition(malloc(h, "triplet"), e, out, mask, err, smi)
      [] e.type = "BOOL_UNARY" ->
            IF e.oper = "BOOL_OP_IDENTITY"
            THEN build_bool_expr(h, e.expr1, out, mask, err, smi)
            ELSE BuildInterior(h, e, out, mask, err, smi, "NODE_UNARY_EXPR")
      [] e.type = "BOOL_BINARY" ->
            BuildInterior(h, e, out, mask, err, smi, "NODE_BINARY_EXPR")
      [] OTHER ->
            BRet(EINVAL, h, mask, <<"Invalid boolean node type %d while parsing">>)

\* CreateBoolCond once malloc returned m
CondCreated(m, out, compar, crit, val) ==
    IF m.p = NULL
    THEN [rc |-> -ENOMEM, h |-> SetCondition(m.h, out, NULL)]
    ELSE [rc |-> 0,
          h |-> [SetCondition(m.h, out, m.p) EXCEPT !.mem[m.p].triplet =
                     [crit |-> crit, op |-> compar, val |-> val,
                      xattr_name |-> <<>>, flags |-> {}]]]

CreateBoolCond(h, out, compar, crit, val) ==
    CondCreated(malloc(h, "triplet"), out, compar, crit, val)

\* FreeBoolExpr; reading a node that was freed, or an owner flag nobody
\* wrote, is undefined
RECURSIVE FreeBoolExprMem(_, _, _)

\* the switch on the type of node n
FreeContent(h, n) ==
    CASE n.node_type = "NODE_CONDITION" -> free(h, n.condition)
      [] n.node_type = "NODE_UNARY_EXPR" ->
            IF n.owner = Indeterminate THEN [h EXCEPT !.ub = TRUE]
            ELSE IF n.owner # 0 THEN FreeBoolExprMem(h, n.expr1, TRUE)
            ELSE h
      [] n.node_type = "NODE_BINARY_EXPR" ->
            IF n.owner = Indeterminate THEN [h EXCEPT !.ub = TRUE]
            ELSE IF n.owner # 0
            THEN FreeBoolExprMem(FreeBoolExprMem(h, n.expr1, TRUE), n.expr2, TRUE)
            ELSE h
      [] OTHER -> h

FreeTopNode(h, p_expr, free_top_node) ==
    IF free_top_node THEN free(h, p_expr) ELSE h

FreeBoolExprMem(h, p_expr, free_top_node) ==
    IF p_expr = NULL THEN h
    ELSE IF ~IsCell(h, p_expr) THEN [h EXCEPT !.ub = TRUE]
    ELSE IF h.mem[p_expr].nfree > 0 THEN [h EXCEPT !.ub = TRUE]
    ELSE FreeTopNode(FreeContent(h, Node(h, p_expr)), p_expr, free_top_node)

FreeBoolExpr(h, p_expr, free_top_node) ==
    [rc |-> IF p_expr = NULL THEN -EFAULT ELSE 0,
     h |-> FreeBoolExprMem(h, p_expr, free_top_node)]

\* AppendBoolCond once CreateBoolCond returned c: the free_expr2 and
\* free_expr1 labels on failure
AppendCreated(c, io) ==
    IF c.rc # 0
    THEN [rc |-> c.rc,
          h |-> FreeBoolExpr(free(c.h, Node(c.h, io).expr2),
                             Node(c.h, io).expr1, TRUE).h]
    ELSE c

\* AppendBoolCond once malloc returned m for expr2
AppendSecond(m, io, compar, crit, val) ==
    IF m.p = NULL
    THEN [rc |-> -ENOMEM,
          h |-> FreeBoolExpr(SetExpr2(m.h, io, NULL), Node(m.h, io).expr1, TRUE).h]
    ELSE AppendCreated(CreateBoolCond(SetExpr2(m.h, io, m.p), m.p, compar, crit, val),
                       io)

\* AppendBoolCond once malloc returned m for expr1
AppendFirst(m, copy_prev, io, compar, crit, val) ==
    IF m.p = NULL
    THEN [rc |-> -ENOMEM, h |-> SetOwnerExpr1(m.h, io, NULL)]
    ELSE AppendSecond(malloc(SetNode(SetOwnerExpr1(m.h, io, m.p), m.p, copy_prev),
                             "node"),
                      io, compar, crit, val)

\* bool_node_t copy_prev = *p_in_out_node, taken on entry
CopyPrev_AfterRewrite(h, io) ==
    Node(SetInterior(h, io, "NODE_BINARY_EXPR", "BOOL_AND"), io)
CopyPrev(h, io) == Node(h, io)

\* AppendBoolCond; io is p_in_out_node
AppendBoolCond(h, io, compar, crit, val) ==
    AppendFirst(malloc(SetInterior(h, io, "NODE_BINARY_EXPR", "BOOL_AND"), "node"),
                CopyPrev(h, io), io, compar, crit, val)

\* the output node of a singleton: the class's root node, owner cleared
ClassView_KeepOwner(definition) == definition
ClassView(definition) == [definition EXCEPT !.owner = 0]

MinOf(S) == CHOOSE x \in S : \A y \in S : x <= y

\* the singleton case once the table was searched: hits holds the indexes
\* of the classes with that name
SingletonFound_MarksClass(h, hits, set, out, mask, err, policies) ==
    IF hits = {}
    THEN BRet(ENOENT, h, mask, <<"FileClass '%s' is undefined">>)
    ELSE BRet(0, SetNode(SetNode(h, policies[MinOf(hits)].definition,
                                 ClassView(Node(h, policies[MinOf(hits)].definition))),
                         out, ClassView(Node(h, policies[MinOf(hits)].definition))),
              BitOr(mask, policies[MinOf(hits)].attr_mask), err)
SingletonFound(h, hits, set, out, mask, err, policies) ==
    IF hits = {}
    THEN BRet(ENOENT, h, mask, <<"FileClass '%s' is undefined">>)
    ELSE BRet(0, SetNode(h, out, ClassView(Node(h, policies[MinOf(hits)].definition))),
              BitOr(mask, policies[MinOf(hits)].attr_mask), err)

\* build_set_expr; policies is the file class table
RECURSIVE build_set_expr(_, _, _, _, _, _)

\* SET_NEGATION once malloc returned m for expr1
BuildNegation(m, set, out, mask, err, policies) ==
    IF m.p = NULL
    THEN ErrMem(SetOwnerExpr1(m.h, out, NULL), mask)
    ELSE AfterLastChild(build_set_expr(SetExpr2(SetOwnerExpr1(m.h, out, m.p), out, NULL),
                                       set.set1, m.p, mask, err, policies),
                        out, FALSE)

\* union or intersection once malloc returned m for expr2, the first set
\* having returned r1
BuildSecondSet(m, r1, set, out, policies) ==
    IF m.p = NULL
    THEN ErrMem(SetExpr2(m.h, out, NULL), r1.mask)
    ELSE AfterLastChild(build_set_expr(SetExpr2(m.h, out, m.p), set.set2, m.p,
                                       r1.mask, r1.err, policies),
                        out, TRUE)

\* union or intersection once the first set returned r1
AfterFirstSet(r1, set, out, policies) ==
    IF r1.rc # 0 THEN FreeExpr1(r1, out)
    ELSE BuildSecondSet(malloc(r1.h, "node"), r1, set, out, policies)

\* union or intersection once malloc returned m for expr1
BuildSetOp(m, set, out, mask, err, policies) ==
    IF m.p = NULL
    THEN ErrMem(SetOwnerExpr1(m.h, out, NULL), mask)
    ELSE AfterFirstSet(build_set_expr(SetOwnerExpr1(m.h, out, m.p), set.set1, m.p,
                                      mask, err, policies),
                       set, out, policies)

build_set_expr(h, set, out, mask, err, policies) ==
    CASE set.set_type = "SET_SINGLETON" ->
            SingletonFound(h, {i \in 1 .. Len(policies) :
                                  StrCaseEq(policies[i].fileset_id, set.name)},
                           set, out, mask, err, policies)
      [] set.set_type = "SET_NEGATION" ->
            IF set.oper # "SET_OP_NOT"
            THEN BRet(EINVAL,
                      SetNode(h, out, [Node(h, out) EXCEPT !.node_type = "NODE_UNARY_EXPR"]),
                      mask, <<"Unexpected set operator in unary expression">>)
            ELSE BuildNegation(malloc(SetInterior(h, out, "NODE_UNARY_EXPR", "BOOL_NOT"),
                                      "node"),
                               set, out, mask, err, policies)
      [] OTHER ->
            IF set.oper \notin {"SET_OP_UNION", "SET_OP_INTER"}
            THEN BRet(EINVAL,
                      SetNode(h, out, [Node(h, out) EXCEPT !.node_type = "NODE_BINARY_EXPR"]),
                      mask, <<"Unexpected set operator in expression">>)
            ELSE BuildSetOp(malloc(SetInterior(h, out, "NODE_BINARY_EXPR",
                                               IF set.oper = "SET_OP_UNION"
                                               THEN "BOOL_OR" ELSE "BOOL_AND"),
                                   "node"),
                            set, out, mask, err, policies)

\* the framing GetBoolExpr and GetSetExpr share: expected is the item type
\* the block must hold, Build the builder to run on that item
BlockError(block, expected, typeMsg, singleMsg) ==
    IF block.type # "TYPE_BLOCK"
    THEN [rc |-> EINVAL, err |-> <<"'%s' is expected to be a block">>]
    ELSE IF block.block_content = <<>>
    THEN [rc |-> ENOENT, err |-> <<"'%s' block is empty, line %d">>]
    ELSE IF block.block_content[1].type # expected
    THEN [rc |-> EINVAL, err |-> <<typeMsg>>]
    ELSE IF Len(block.block_content) > 1
    THEN [rc |-> EINVAL, err |-> <<singleMsg>>]
    ELSE [rc |-> 0, err |-> <<>>]

BuilderReturned_NoLine(r) == r

\* what the caller gets from a builder that returned r
BuilderReturned(r) ==
    IF r.rc # 0 THEN [r EXCEPT !.err = Append(@, ", line %d")] ELSE r

\* the block passed the checks (b.rc = 0) or not
BoolBlockChecked(b, h, block, p_bool_node, err, smi) ==
    IF b.rc # 0 THEN BRet(b.rc, h, 0, b.err)
    ELSE BuilderReturned(build_bool_expr(h, block.block_content[1].item, p_bool_node,
                                         0, err, smi))

GetBoolExpr(h, block, p_bool_node, err, smi) ==
    BoolBlockChecked(
        BlockError(block, "TYPE_BOOL_EXPR",
                   "Boolean expression expected in block '%s', line %d",
                   "A single boolean expression is expected in block '%s', line %d"),
        h, block, p_bool_node, err, smi)

SetBlockChecked(b, h, block, p_bool_node, err, policies) ==
    IF b.rc # 0 THEN BRet(b.rc, h, 0, b.err)
    ELSE BuilderReturned(build_set_expr(h, block.block_content[1].item, p_bool_node,
                                        0, err, policies))

GetSetExpr(h, block, p_bool_node, err, policies) ==
    SetBlockChecked(
        BlockError(block, "TYPE_SET",
                   "Union/intersection/negation of classes expected in block '%s', line %d",
                   "A single expression is expected in block '%s', line %d"),
        h, block, p_bool_node, err, policies)

-----------------------------------------------------------------------------
(* The tree printer: op2str, print_condition, BoolExpr2str                 *)

op2str(comp) ==
    CASE comp = "COMP_GRTHAN" -> <<">">>
      [] comp = "COMP_GRTHAN_EQ" -> <<">", "=">>
      [] comp = "COMP_LSTHAN" -> <<"<">>
      [] comp = "COMP_LSTHAN_EQ" -> <<"<", "=">>
      [] comp = "COMP_EQUAL" -> <<"=", "=">>
      [] comp = "COMP_DIFF" -> <<"<", ">">>
      [] comp = "COMP_LIKE" -> <<" ", "=", "~", " ">>
      [] comp = "COMP_UNLIKE" -> <<" ", "!", "~", " ">>
      [] OTHER -> <<"?">>

\* criteria2str (rbh_misc): the name str2criteria reads
criteria2str(crit) ==
    CASE crit = "CRITERIA_SIZE" -> <<"s", "i", "z", "e">>
      [] crit = "CRITERIA_FILENAME" -> <<"n", "a", "m", "e">>
      [] crit = "CRITERIA_STATUS" -> <<"s", "t", "a", "t", "u", "s">>
      [] OTHER -> <<"?">>

\* printf("%d") of a natural number
RECURSIVE ToDecimal(_)
ToDecimal(n) ==
    IF n < 10 THEN <<Digits[n + 1]>>
    ELSE Append(ToDecimal(n \div 10), Digits[(n % 10) + 1])

\* FormatFileSize (rbh_misc): bytes below 1 KB, then two decimals and a unit
KILO_BYTE == 1024
FormatFileSize(size) ==
    IF size < KILO_BYTE THEN ToDecimal(size)
    ELSE IF size < KILO_BYTE * KILO_BYTE
    THEN ToDecimal(size \div KILO_BYTE) \o <<".">>
            \o ToDecimal((((size % KILO_BYTE) * 100) \div KILO_BYTE) \div 10)
            \o ToDecimal((((size % KILO_BYTE) * 100) \div KILO_BYTE) % 10)
            \o <<" ", "K", "B">>
    ELSE ToDecimal(size \div (KILO_BYTE * KILO_BYTE)) \o <<".", "0", "0", " ", "M", "B">>

\* print_condition without its buffer: the code it returns on a criterion
\* it has no case for, else the text snprintf is asked to store
print_condition(p_triplet) ==
    CASE p_triplet.crit = "CRITERIA_FILENAME" ->
            [rc |-> 0,
             text |-> criteria2str(p_triplet.crit) \o <<" ">> \o op2str(p_triplet.op)
                        \o <<" ", "\"">> \o p_triplet.val \o <<"\"">>]
      [] p_triplet.crit = "CRITERIA_SIZE" ->
            [rc |-> 0,
             text |-> criteria2str(p_triplet.crit) \o <<" ">> \o op2str(p_triplet.op)
                        \o <<" ">> \o FormatFileSize(p_triplet.val)]
      [] OTHER -> [rc |-> -EINVAL, text |-> <<>>]

\* a + b in uint64_t
RECURSIVE AddLimbs(_, _, _)
AddLimbs(x, y, c) ==
    IF x = <<>> THEN <<>>
    ELSE <<(x[1] + y[1] + c) % LimbBase>>
             \o AddLimbs(Tail(x), Tail(y), (x[1] + y[1] + c) \div LimbBase)

\* str_size - written in size_t: below zero it wraps round
SizeLeft(str_size, written) == AddLimbs(str_size, Neg64(U64(written)), 0)

\* one call of snprintf(out_str + at, size, text); it returns Len(text)
snprintf(at, size, text) == [at |-> at, size |-> size, text |-> text]

\* what a printer call returns: its code, the snprintf calls made so far in
\* order, and whether a freed or unset node was read
PRet(rc, writes, ub) == [rc |-> rc, writes |-> writes, ub |-> ub]

Wrote(s, at, size, text) == Append(s.writes, snprintf(at, size, text))

\* case NODE_CONDITION
PrintLeaf(pc, at, str_size, s) ==
    IF pc.rc < 0 THEN PRet(pc.rc, s.writes, s.ub)
    ELSE PRet(Len(pc.text), Wrote(s, at, str_size, pc.text), s.ub)

\* written += snprintf(out_str + written, str_size - written, ")")
PrintClose(r, written, at, str_size) ==
    PRet(written + 1, Wrote(r, at + written, SizeLeft(str_size, written), <<")">>), r.ub)

\* the end of a node whose last child returned r, written counting what
\* came before that child
PrintAfterChild(r, written, at, str_size) ==
    IF r.rc < 0 THEN r ELSE PrintClose(r, written + r.rc, at, str_size)

BinarySeparator(n) ==
    IF n.bool_op = "BOOL_OR" THEN <<")", " ", "O", "R", " ", "(">>
    ELSE <<")", " ", "A", "N", "D", " ", "(">>

RECURSIVE BoolExpr2strAt(_, _, _, _, _)

\* case NODE_BINARY_EXPR once the first child returned r, written counting
\* the "(" and that child
PrintSecond(cells, n, r, written, at, str_size) ==
    PrintAfterChild(
        BoolExpr2strAt(cells, n.expr2, at + written + Len(BinarySeparator(n)),
                       SizeLeft(str_size, written + Len(BinarySeparator(n))),
                       PRet(0, Wrote(r, at + written, SizeLeft(str_size, written),
                                     BinarySeparator(n)), r.ub)),
        written + Len(BinarySeparator(n)), at, str_size)

PrintBinary(cells, n, r, at, str_size) ==
    IF r.rc < 0 THEN r ELSE PrintSecond(cells, n, r, 1 + r.rc, at, str_size)

\* the switch on the type of node n, read at out_str + at
PrintNode(cells, n, at, str_size, s) ==
    CASE n.node_type = "NODE_UNARY_EXPR" ->
            IF n.bool_op # "BOOL_NOT" THEN PRet(-EINVAL, s.writes, s.ub)
            ELSE PrintAfterChild(
                     BoolExpr2strAt(cells, n.expr1, at + 5, SizeLeft(str_size, 5),
                                    PRet(0, Wrote(s, at, str_size, <<"N", "O", "T", " ", "(">>),
                                         s.ub)),
                     5, at, str_size)
      [] n.node_type = "NODE_BINARY_EXPR" ->
            PrintBinary(cells, n,
                        BoolExpr2strAt(cells, n.expr1, at + 1, SizeLeft(str_size, 1),
                                       PRet(0, Wrote(s, at, str_size, <<"(">>), s.ub)),
                        at, str_size)
      [] n.node_type = "NODE_CONDITION" ->
            IF n.condition \notin 1 .. Len(cells) \/ cells[n.condition].nfree > 0
            THEN PRet(-EINVAL, s.writes, TRUE)
            ELSE PrintLeaf(print_condition(cells[n.condition].triplet), at, str_size, s)
      [] OTHER -> PRet(-EINVAL, s.writes, s.ub)

\* BoolExpr2str on the node at p, out_str being at bytes into the buffer of
\* the first call
BoolExpr2strAt(cells, p, at, str_size, s) ==
    IF p \notin 1 .. Len(cells) \/ cells[p].nfree > 0
    THEN PRet(-EINVAL, s.writes, TRUE)
    ELSE PrintNode(cells, cells[p].node, at, str_size, s)

BoolExpr2str(cells, p_bool_node, str_size) ==
    BoolExpr2strAt(cells, p_bool_node, 0, U64(str_size), PRet(0, <<>>, FALSE))

-----------------------------------------------------------------------------
(* The callers of the bool tree functions                                  *)

\* parsed conditions
KeyValue(varname, op, varvalue) ==
    [varname |-> varname, op_type |-> op, varvalue |-> varvalue]
SizeCond == KeyValue(<<"s", "i", "z", "e">>, "OP_GT", <<"1", "k">>)
NameCond == KeyValue(<<"n", "a", "m", "e">>, "OP_EQUAL", <<"a", "*">>)
StatusCond == KeyValue(<<"s", "t", "a", "t", "u", "s">>, "OP_EQUAL", <<"a">>)
PlainNameCond == KeyValue(<<"n", "a", "m", "e">>, "OP_EQUAL", <<"a">>)
SmallSizeCond == KeyValue(<<"s", "i", "z", "e">>, "OP_LT_EQ", <<"1", "1">>)
EmptyNameCond == KeyValue(<<"n", "a", "m", "e">>, "OP_EQUAL", <<>>)
UnknownCond == KeyValue(<<"x">>, "OP_EQUAL", <<"1">>)

\* parsed boolean expressions (type_bool_expr)
Cond(kv) == [type |-> "BOOL_CONDITION", key_value |-> kv]
Unary(oper, e) == [type |-> "BOOL_UNARY", oper |-> oper, expr1 |-> e]
Binary(oper, e1, e2) == [type |-> "BOOL_BINARY", oper |-> oper, expr1 |-> e1, expr2 |-> e2]

\* parsed set expressions (type_set)
Singleton(name) == [set_type |-> "SET_SINGLETON", name |-> name]
Negation(s) == [set_type |-> "SET_NEGATION", oper |-> "SET_OP_NOT", set1 |-> s]
SetOp(oper, s1, s2) == [set_type |-> "SET_BINARY", oper |-> oper, set1 |-> s1, set2 |-> s2]

\* config items
BoolItem(e) == [type |-> "TYPE_BOOL_EXPR", item |-> e]
SetItem(s) == [type |-> "TYPE_SET", item |-> s]
Block(content) == [type |-> "TYPE_BLOCK", block_content |-> content]
NoBlock == [type |-> "NULL", block_content |-> <<>>]
VarItem == [type |-> "TYPE_VAR", block_content |-> <<>>]

\* the definitions file classes are given
ClassExprs ==
    {Cond(SizeCond),
     Unary("BOOL_OP_NOT", Cond(NameCond)),
     Binary("BOOL_OP_AND", Cond(SizeCond), Cond(NameCond))}

ClassNames == << <<"h", "o", "t">>, <<"c", "o", "l", "d">> >>

\* the expressions GetBoolExpr is called on
BoolExprs ==
    {Cond(SizeCond),
     Cond(StatusCond),
     Cond(EmptyNameCond),
     Unary("BOOL_OP_IDENTITY", Unary("BOOL_OP_NOT", Cond(NameCond))),
     Unary("BOOL_OP_AND", Cond(SizeCond)),
     Binary("BOOL_OP_OR", Cond(SizeCond), Cond(NameCond)),
     Binary("BOOL_OP_AND", Cond(SmallSizeCond), Unary("BOOL_OP_NOT", Cond(PlainNameCond))),
     Binary("BOOL_OP_AND", Cond(NameCond), Cond(StatusCond)),
     Binary("BOOL_OP_AND", Unary("BOOL_OP_NOT", Cond(SizeCond)), Cond(UnknownCond)),
     Binary("BOOL_OP_IDENTITY", Cond(SizeCond), Cond(NameCond))}

BoolBlocks ==
    {Block(<<BoolItem(e)>>) : e \in BoolExprs}
    \cup {NoBlock, VarItem, Block(<<>>), Block(<<SetItem(Singleton(ClassNames[1]))>>),
          Block(<<BoolItem(Cond(SizeCond)), BoolItem(Cond(NameCond))>>)}

Hot == Singleton(ClassNames[1])
Cold == Singleton(ClassNames[2])

\* the expressions GetSetExpr is called on
SetExprs ==
    {Hot,
     Singleton(<<"C", "o", "l", "d">>),
     Singleton(<<"x">>),
     Negation(Hot),
     SetOp("SET_OP_UNION", Hot, Hot),
     SetOp("SET_OP_INTER", SetOp("SET_OP_UNION", Hot, Cold), Negation(Cold)),
     SetOp("SET_OP_UNION", SetOp("SET_OP_INTER", Hot, Cold), Singleton(<<"x">>)),
     SetOp("SET_OP_NOT", Hot, Cold)}

SetBlocks ==
    {Block(<<SetItem(s)>>) : s \in SetExprs}
    \cup {NoBlock, VarItem, Block(<<>>), Block(<<BoolItem(Cond(SizeCond))>>),
          Block(<<SetItem(Hot), SetItem(Cold)>>)}

\* bounds of the exploration
MaxTrees == 1
MaxFailAt == 3
MaxAppends == 1

\* failAt: the malloc call that fails, counted within the call (0: none)
Budget(failAt) == failAt - 1

\* what err_msg holds when a builder is called
StaleErr == <<"(previous content)">>

RootStorage == {"heap", "static"}

\* the addresses free() was called on between two memories
Freed(before, after) ==
    {a \in 1 .. Len(after) :
        after[a].nfree > (IF a <= Len(before) THEN before[a].nfree ELSE 0)}

Called(fn, root, rc, err, mask, before, h) ==
    [fn |-> fn, root |-> root, rc |-> rc, err |-> err, mask |-> mask,
     freed |-> Freed(before, h.mem), ub |-> h.ub, smi |-> NoSmi,
     print |-> [str_size |-> 0, writes |-> <<>>]]

ClassesAlive == \A i \in 1 .. Len(fileset_list) : ~fileset_list[i].freed

\* the file class whose definition was compiled into root, r being what
\* GetBoolExpr returned: it enters the table when it compiled
ClassDefined(root, r) ==
    /\ r.rc = 0
    /\ mem' = r.h.mem
    /\ fileset_list' = Append(fileset_list,
           [fileset_id |-> ClassNames[Len(fileset_list) + 1],
            definition |-> root, attr_mask |-> r.mask, freed |-> FALSE])
    /\ call' = Called("DefineFileClass", root, r.rc, r.err, r.mask, mem, r.h)

\* A file class is read: its definition is compiled by GetBoolExpr into the
\* definition node of a new fileset_list entry
DefineFileClass ==
    /\ ~call.ub
    /\ trees = <<>>
    /\ ClassesAlive
    /\ Len(fileset_list) < Len(ClassNames)
    /\ \E e \in ClassExprs :
          ClassDefined(Len(mem) + 1,
                       GetBoolExpr(Heap(Append(mem, NewCell("node", "static", Len(mem) + 1)),
                                        Budget(0), Len(mem) + 1, "passes"),
                                   Block(<<BoolItem(e)>>), Len(mem) + 1, StaleErr, NoSmi))
    /\ UNCHANGED <<modules, rsp, drv, par, cri, trees>>

\* the tree a caller asked for at root, r being what the function returned
\* and smi the status manager instance it was called with
TreeBuilt(fn, root, r, input, smi) ==
    /\ mem' = r.h.mem
    /\ trees' = Append(trees,
           [root |-> root, attr_mask |-> r.mask, fn |-> fn, input |-> input,
            appended |-> 0, status |-> IF r.rc = 0 THEN "built" ELSE "failed"])
    /\ call' = [Called(fn, root, r.rc, r.err, r.mask, mem, r.h) EXCEPT !.smi = smi]

\* the memory at a call that builds a tree into a new node of the caller
HeapWithRoot(storage, failAt, sprintf) ==
    Heap(Append(mem, NewCell("node", storage, Len(mem) + 1)), Budget(failAt),
         Len(mem) + 1, sprintf)

CallGetBoolExpr ==
    /\ ~call.ub
    /\ Len(trees) < MaxTrees
    /\ \E block \in BoolBlocks, storage \in RootStorage, failAt \in 0 .. MaxFailAt,
          smi \in {NoSmi, TheSmi}, sprintf \in UBOutcomes :
          TreeBuilt("GetBoolExpr", Len(mem) + 1,
                    GetBoolExpr(HeapWithRoot(storage, failAt, sprintf), block,
                                Len(mem) + 1, StaleErr, smi),
                    block, smi)
    /\ UNCHANGED <<modules, rsp, drv, par, cri, fileset_list>>

CallGetSetExpr ==
    /\ ~call.ub
    /\ Len(trees) < MaxTrees
    /\ ClassesAlive
    /\ \E block \in SetBlocks, storage \in RootStorage, failAt \in 0 .. MaxFailAt :
          TreeBuilt("GetSetExpr", Len(mem) + 1,
                    GetSetExpr(HeapWithRoot(storage, failAt, "passes"), block,
                               Len(mem) + 1, StaleErr, fileset_list),
                    block, NoSmi)
    /\ UNCHANGED <<modules, rsp, drv, par, cri, fileset_list>>

\* tree j after a call on it returned r
TreeCalled(fn, j, r, status, appended) ==
    /\ mem' = r.h.mem
    /\ trees' = [trees EXCEPT ![j].appended = @ + appended,
                              ![j].status = IF r.rc = 0 THEN status ELSE "broken"]
    /\ call' = Called(fn, trees[j].root, r.rc, <<>>, trees[j].attr_mask, mem, r.h)

CallAppendBoolCond ==
    /\ ~call.ub
    /\ \E j \in 1 .. Len(trees), failAt \in 0 .. MaxFailAt :
        /\ trees[j].status = "built"
        /\ trees[j].appended < MaxAppends
        /\ TreeCalled("AppendBoolCond", j,
                      AppendBoolCond(Heap(mem, Budget(failAt), trees[j].root, "passes"),
                                     trees[j].root, "COMP_GRTHAN", "CRITERIA_SIZE", 1),
                      "built", 1)
    /\ UNCHANGED <<modules, rsp, drv, par, cri, fileset_list>>

\* the sizes of the buffers a tree is printed into
StrSizes == {0, 1, 8, 64}

\* BoolExpr2str returned r on tree j and a buffer of str_size bytes
Printed(j, str_size, r) ==
    call' = [Called("BoolExpr2str", trees[j].root, r.rc, <<>>, trees[j].attr_mask, mem,
                    [mem |-> mem, ub |-> r.ub])
                EXCEPT !.print = [str_size |-> str_size, writes |-> r.writes]]

CallBoolExpr2str ==
    /\ ~call.ub
    /\ \E j \in 1 .. Len(trees), str_size \in StrSizes :
        /\ trees[j].status = "built"
        /\ Printed(j, str_size, BoolExpr2str(mem, trees[j].root, str_size))
    /\ UNCHANGED <<modules, rsp, drv, par, cri, mem, fileset_list, trees>>

\* the owner of a tree disposes of it: the root goes too when it came from
\* malloc
CallFreeBoolExpr ==
    /\ ~call.ub
    /\ \E j \in 1 .. Len(trees) :
        /\ trees[j].status = "built"
        /\ TreeCalled("FreeBoolExpr", j,
                      FreeBoolExpr(Heap(mem, Budget(0), trees[j].root, "passes"),
                                   trees[j].root, mem[trees[j].root].storage = "heap"),
                      "freed", 0)
    /\ UNCHANGED <<modules, rsp, drv, par, cri, fileset_list>>

\* FreeBoolExpr(&fileset_list[i].definition, false) for each class from i on
RECURSIVE FreeClassDefinitions(_, _, _)
FreeClassDefinitions(h, policies, i) ==
    IF i > Len(policies) THEN h
    ELSE FreeClassDefinitions(FreeBoolExpr(h, policies[i].definition, FALSE).h,
                              policies, i + 1)

ClassesFreed(h) ==
    /\ mem' = h.mem
    /\ fileset_list' = [i \in 1 .. Len(fileset_list) |->
                           [fileset_list[i] EXCEPT !.freed = TRUE]]
    /\ call' = Called("FreeFileClasses", 0, 0, <<>>, 0, mem, h)

\* the policies are disposed of, once the trees built from them are gone
FreeFileClasses ==
    /\ ~call.ub
    /\ fileset_list # <<>>
    /\ ClassesAlive
    /\ \A j \in 1 .. Len(trees) : trees[j].status # "built"
    /\ ClassesFreed(FreeClassDefinitions(Heap(mem, Budget(0), 0, "passes"),
                                         fileset_list, 1))
    /\ UNCHANGED <<modules, rsp, drv, par, cri, trees>>

TreeInit ==
    /\ modules = [i \in 1 .. NModules |-> MODULE_MASK_ALWAYS]
    /\ drv = DrvIdle
    /\ par = ParIdle
    /\ rsp = RspIdle
    /\ cri = CriIdle
    /\ PolIdle

TreeNext ==
    \/ DefineFileClass
    \/ CallGetBoolExpr
    \/ CallGetSetExpr
    \/ CallAppendBoolCond
    \/ CallBoolExpr2str
    \/ CallFreeBoolExpr
    \/ FreeFileClasses

SpecTree == TreeInit /\ [][TreeNext]_vars

-----------------------------------------------------------------------------
(* The driver: ReadRobinhoodConfig and ReloadRobinhoodConfig               *)

\* return codes a module callback may give
CallbackCodes == {0, EINVAL, ENOMEM, -1}

\* "only initialize modules with flag MODULE_MASK_ALWAYS or matching
\*  'module_mask' parameter": the negation of the loop's `continue` test
ModuleSelected_FlagsOnly(flags, module_mask) == BitAnd(flags, module_mask) # 0
ModuleSelected(flags, module_mask) ==
    ~((flags # MODULE_MASK_ALWAYS) /\ (BitAnd(flags, module_mask) = 0))

\* The result of the k-th callback invoked by one ReadRobinhoodConfig call:
\* the environment makes invocation number failAt return failCode.
CallbackResult(k, failAt, failCode) == IF k = failAt THEN failCode ELSE 0

\* The loop of ReadRobinhoodConfig from module i on; done is the list of
\* callbacks invoked so far. Returns the final rc and the callbacks invoked.
\* (the walk with `goto config_free` after a failed set_default_func left out)
RECURSIVE ReadWalk_NoAbort(_, _, _, _, _, _)
ReadWalk_NoAbort(tab, i, module_mask, failAt, failCode, done) ==
    IF i > Len(tab) THEN [rc |-> 0, calls |-> done]
    ELSE IF ~ModuleSelected(tab[i], module_mask)
    THEN ReadWalk_NoAbort(tab, i + 1, module_mask, failAt, failCode, done)
    ELSE
        LET c1 == Append(done, <<"set_default_func", i>>)
            c2 == Append(c1, <<"read_func", i>>)
            rc2 == CallbackResult(Len(c2), failAt, failCode)
        IN  IF rc2 # 0 THEN [rc |-> rc2, calls |-> c2]
            ELSE ReadWalk_NoAbort(tab, i + 1, module_mask, failAt, failCode, c2)

RECURSIVE ReadWalk(_, _, _, _, _, _)
ReadWalk(tab, i, module_mask, failAt, failCode, done) ==
    IF i > Len(tab) THEN [rc |-> 0, calls |-> done]
    ELSE IF ~ModuleSelected(tab[i], module_mask)
    THEN ReadWalk(tab, i + 1, module_mask, failAt, failCode, done)
    ELSE
        LET c1 == Append(done, <<"set_default_func", i>>)
            rc1 == CallbackResult(Len(c1), failAt, failCode)
        IN  IF rc1 # 0 THEN [rc |-> rc1, calls |-> c1]
            ELSE
                LET c2 == Append(c1, <<"read_func", i>>)
                    rc2 == CallbackResult(Len(c2), failAt, failCode)
                IN  IF rc2 # 0 THEN [rc |-> rc2, calls |-> c2]
                    ELSE ReadWalk(tab, i + 1, module_mask, failAt, failCode, c2)

\* What ReadRobinhoodConfig does after rh_config_ParseFile returned:
\* the whole call's rc and its calls, rh_config_Free included.
ReadAfterParse_NoFreeOnError(tab, parsed, module_mask, failAt, failCode) ==
    IF ~parsed THEN [rc |-> EINVAL, calls |-> <<>>]
    ELSE LET w == ReadWalk(tab, 1, module_mask, failAt, failCode, <<>>)
         IN  [rc |-> w.rc,
              calls |-> IF w.rc # 0 THEN w.calls
                        ELSE Append(w.calls, <<"rh_config_Free", 0>>)]

ReadAfterParse(tab, parsed, module_mask, failAt, failCode) ==
    IF ~parsed THEN [rc |-> EINVAL, calls |-> <<>>]
    ELSE LET w == ReadWalk(tab, 1, module_mask, failAt, failCode, <<>>)
         IN  [rc |-> w.rc, calls |-> Append(w.calls, <<"rh_config_Free", 0>>)]

\* The loop of ReloadRobinhoodConfig from module i on; results[i] is what
\* module i's reload_func returns.
RECURSIVE ReloadWalk_LastResult(_, _, _, _, _, _)
ReloadWalk_LastResult(tab, i, module_mask, results, rc, done) ==
    IF i > Len(tab) THEN [rc |-> rc, calls |-> done]
    ELSE IF ~ModuleSelected(tab[i], module_mask)
    THEN ReloadWalk_LastResult(tab, i + 1, module_mask, results, rc, done)
    ELSE ReloadWalk_LastResult(tab, i + 1, module_mask, results, results[i],
                               Append(done, <<"reload_func", i>>))

RECURSIVE ReloadWalk(_, _, _, _, _, _)
ReloadWalk(tab, i, module_mask, results, rc, done) ==
    IF i > Len(tab) THEN [rc |-> rc, calls |-> done]
    ELSE IF ~ModuleSelected(tab[i], module_mask)
    THEN ReloadWalk(tab, i + 1, module_mask, results, rc, done)
    ELSE LET rc_temp == results[i]
         IN  ReloadWalk(tab, i + 1, module_mask, results,
                        IF rc_temp # 0 THEN rc_temp ELSE rc,
                        Append(done, <<"reload_func", i>>))

ReadRobinhoodConfig ==
    /\ drv.op = "none"
    /\ \E module_mask \in Masks, parsed \in BOOLEAN,
       failAt \in 0 .. (2 * NModules), failCode \in CallbackCodes \ {0} :
        LET r == ReadAfterParse(modules, parsed, module_mask, failAt, failCode)
        IN  /\ drv' = [op |-> "read", module_mask |-> module_mask,
                       parsed |-> parsed, failAt |-> failAt,
                       failCode |-> failCode, results |-> <<>>,
                       calls |-> r.calls, rc |-> r.rc]
            /\ UNCHANGED <<modules, rsp, par, cri, polVars>>

ReloadRobinhoodConfig ==
    /\ drv.op = "none"
    /\ \E module_mask \in Masks, results \in [1 .. NModules -> CallbackCodes] :
        LET r == ReloadWalk(modules, 1, module_mask, results, 0, <<>>)
        IN  /\ drv' = [op |-> "reload", module_mask |-> module_mask,
                       parsed |-> TRUE, failAt |-> 0, failCode |-> 0,
                       results |-> results, calls |-> r.calls, rc |-> r.rc]
            /\ UNCHANGED <<modules, rsp, par, cri, polVars>>

DriverInit ==
    /\ modules \in [1 .. NModules -> Masks]
    /\ drv = DrvIdle
    /\ par = ParIdle
    /\ rsp = RspIdle
    /\ cri = CriIdle
    /\ PolIdle

\* the caller takes the result and is ready for its next call
DriverReturn ==
    /\ drv.op # "none"
    /\ drv' = DrvIdle
    /\ UNCHANGED <<modules, rsp, par, cri, polVars>>

DriverNext == ReadRobinhoodConfig \/ ReloadRobinhoodConfig \/ DriverReturn

SpecDriver == DriverInit /\ [][DriverNext]_vars

-----------------------------------------------------------------------------
(* Properties of the scalar extractors                                     *)

NumericExtractors ==
    {"GetIntParam", "GetInt64Param", "GetSizeParam", "GetDurationParam",
     "GetFloatParam"}

\* a stdio name, which PFLG_STDIO_ALLOWED exempts from the path checks
IsStdioName(str) == \E n \in StdioNames : ToLower(str) = n

\* an '@' with text before it and text after it
HasMailShape(str) ==
    \E k \in 2 .. (Len(str) - 1) : str[k] = "@" /\ \A j \in 1 .. (k - 1) : str[j] # "@"

\* C8: a value an extractor stored with return code 0 satisfies every
\* constraint flag of the descriptor: NOT_EMPTY and NOT_NULL (no empty
\* string, no zero), POSITIVE (not negative), ABSOLUTE_PATH, NO_WILDCARDS and
\* MAIL, but for a stdio name when STDIO_ALLOWED is set.
C8_StoredValueSatisfiesFlags ==
    (par.rc = 0 /\ par.fn = "GetStringParam" =>
        /\ "PFLG_NOT_EMPTY" \in par.flags => par.target # <<>>
        /\ "PFLG_NOT_NULL" \in par.flags => par.target # <<>>
        /\ ~("PFLG_STDIO_ALLOWED" \in par.flags /\ IsStdioName(par.target)) =>
              /\ "PFLG_ABSOLUTE_PATH" \in par.flags => par.target[1] = "/"
              /\ "PFLG_NO_WILDCARDS" \in par.flags =>
                    \A k \in 1 .. Len(par.target) : par.target[k] \notin {"*", "?", "["}
              /\ "PFLG_MAIL" \in par.flags => HasMailShape(par.target))
    /\ (par.rc = 0 /\ par.fn \in NumericExtractors =>
        /\ "PFLG_NOT_NULL" \in par.flags =>
              par.target # (IF par.fn = "GetInt64Param" THEN U64(0) ELSE 0)
        /\ "PFLG_POSITIVE" \in par.flags =>
              (par.fn \in {"GetIntParam", "GetDurationParam", "GetFloatParam"}
                  => par.target >= 0))

Extractors == NumericExtractors \cup {"GetStringParam", "GetBoolParam"}

\* C16: each of the seven extractors, when the variable is absent from the
\* block, returns ENOENT with or without MANDATORY, writes "Missing mandatory
\* parameter '<var>' in block '<block>', line <n>" to err_msg when MANDATORY
\* is set and leaves it empty otherwise, and does not write the target.
C16_AbsentVariable ==
    (par.fn \in Extractors /\ par.item.kind = "absent") =>
        /\ par.rc = ENOENT
        /\ par.err = (IF "PFLG_MANDATORY" \in par.flags
                      THEN "Missing mandatory parameter" ELSE "")
        /\ par.target = par.old

\* an absent boolean parameter without MANDATORY: ENOENT, no message, the
\* target still TRUE
C16_Witness ==
    /\ par.fn = "GetBoolParam"
    /\ par.item.kind = "absent"
    /\ "PFLG_MANDATORY" \notin par.flags
    /\ par.rc = ENOENT
    /\ par.err = ""
    /\ par.old = TRUE
    /\ par.target = TRUE

\* GetStringParam read a value with MAIL as its only constraint: no other
\* checking flag, no option after the value, a target that holds the value
MailOnlyCase ==
    /\ par.fn = "GetStringParam"
    /\ par.item.kind = "var"
    /\ ~par.item.extra
    /\ "PFLG_MAIL" \in par.flags
    /\ par.flags \subseteq {"PFLG_MAIL", "PFLG_MANDATORY"}
    /\ Len(par.item.value) < par.target_size

\* exactly one '@', with a character before it and a character after it
ExactlyOneAt(str) ==
    /\ Cardinality({k \in 1 .. Len(str) : str[k] = "@"}) = 1
    /\ str[1] # "@"
    /\ str[Len(str)] # "@"

\* C18 as stated: with MAIL, GetStringParam accepts a value iff it holds
\* exactly one '@' with a character before it and one after it; two or more
\* '@', an empty local part or an empty domain are rejected with EINVAL.
C18_MailExactlyOneAt ==
    MailOnlyCase =>
        /\ par.rc = 0 <=> ExactlyOneAt(par.item.value)
        /\ ~ExactlyOneAt(par.item.value) => par.rc = EINVAL

\* C18, amended: with MAIL, GetStringParam looks at the first '@' only: it
\* accepts the value iff there is an '@' and the first one is neither the
\* first nor the last character, whatever follows it, further '@' included;
\* any other value is rejected with EINVAL and "Invalid mail address"; with
\* STDIO_ALLOWED a stdio name is accepted without '@'.
C18_MailFirstAtInside ==
    /\ MailOnlyCase =>
          /\ par.rc = 0 <=> HasMailShape(par.item.value)
          /\ par.rc = 0 => par.target = par.item.value
          /\ par.rc # 0 => (par.rc = EINVAL /\ par.err = "Invalid mail address")
    /\ (par.fn = "GetStringParam" /\ par.item.kind = "var" /\ ~par.item.extra
           /\ par.flags = {"PFLG_MAIL", "PFLG_STDIO_ALLOWED"}
           /\ Len(par.item.value) < par.target_size) =>
          (par.rc = 0 <=> (HasMailShape(par.item.value) \/ IsStdioName(par.item.value)))

\* "a@@" is accepted
C18_Witness ==
    /\ MailOnlyCase
    /\ par.item.value = <<"a", "@", "@">>
    /\ par.rc = 0
    /\ par.target = <<"a", "@", "@">>


\* a call of GetInt64Param on a variable whose text is an unsigned integer
\* and a rest
Int64Case ==
    /\ par.fn = "GetInt64Param"
    /\ par.item.kind = "var"
    /\ DigitRun(par.item.value, 1) > 0

Int64Digits == SubSeq(par.item.value, 1, DigitRun(par.item.value, 1))
Int64Rest == SubSeq(par.item.value, Len(Int64Digits) + 1, Len(par.item.value))

\* the unsigned integer the digits parse to
Int64Parsed == DecimalLimbs(Int64Digits)

\* the decimal exponent of the factor of a suffix: k, M, G, T in either case
Int64Exponent ==
    IF Int64Rest \in {<<"k">>, <<"K">>} THEN 3
    ELSE IF Int64Rest \in {<<"m">>, <<"M">>} THEN 6
    ELSE IF Int64Rest \in {<<"g">>, <<"G">>} THEN 9
    ELSE IF Int64Rest \in {<<"t">>, <<"T">>} THEN 12
    ELSE 0

\* x * 10^n as a natural number
RECURSIVE TimesTen(_, _)
TimesTen(x, n) == IF n = 0 THEN x ELSE TimesTen(MulAdd(x, 10, 0), n - 1)

\* a natural number without its leading zero limbs
RECURSIVE Significant(_)
Significant(x) ==
    IF x = <<>> \/ x[Len(x)] # 0 THEN x ELSE Significant(SubSeq(x, 1, Len(x) - 1))

\* C19: GetInt64Param stores the parsed unsigned integer multiplied by the
\* factor of its suffix (k, M, G, T, in either case) as a 64-bit unsigned
\* value equal to the mathematical product; any other trailing text is
\* rejected with EINVAL and leaves the target unwritten.
C19_Int64StoresTheProduct ==
    Int64Case =>
        /\ (par.rc = 0 /\ (Int64Rest = <<>> \/ Int64Exponent > 0) =>
                Significant(par.target) = Significant(TimesTen(Int64Parsed, Int64Exponent)))
        /\ (Int64Rest # <<>> /\ Int64Exponent = 0 =>
                par.rc = EINVAL /\ par.target = par.old)


\* C28: a scalar extractor writes its target only after the value has been
\* parsed and every active check has passed: on every error return of
\* GetStringParam, GetBoolParam, GetIntParam, GetInt64Param, GetSizeParam,
\* GetDurationParam or GetFloatParam (parse failure, constraint violation,
\* or extra arguments with no sink for them) the target still holds the
\* value it had before the call.
C28_ErrorLeavesTarget ==
    (par.fn \in Extractors /\ par.rc # 0) => par.target = par.old

-----------------------------------------------------------------------------
(* Properties of read_scalar_params                                        *)

RspReturned == rsp.fn = "read_scalar_params"

\* the descriptors read_scalar_params has an extractor for
Extracted(d) == d.type \notin {"PT_TYPE", "PT_CMD"}

\* read k stopped the walk
StopsWalk(k) ==
    LET d == rsp.params[rsp.reads[k].i]
    IN  /\ rsp.reads[k].rc # 0
        /\ ~(rsp.reads[k].rc = ENOENT /\ "PFLG_MANDATORY" \notin d.flags)

\* the descriptors from 1 to n that have an extractor, in array order
RECURSIVE ExtractedUpTo(_)
ExtractedUpTo(n) ==
    IF n = 0 THEN <<>>
    ELSE IF Extracted(rsp.params[n]) THEN Append(ExtractedUpTo(n - 1), n)
    ELSE ExtractedUpTo(n - 1)

\* where the walk ended: the descriptor it returned at, Len(params) + 1
\* when it went through the whole array
WalkEnd ==
    IF rsp.reads # <<>> /\ StopsWalk(Len(rsp.reads))
    THEN rsp.reads[Len(rsp.reads)].i
    ELSE IF \E i \in 1 .. Len(rsp.params) :
               /\ rsp.params[i].type = "PT_TYPE"
               /\ \A k \in 1 .. Len(rsp.reads) : rsp.reads[k].i < i
    THEN CHOOSE i \in 1 .. Len(rsp.params) :
               /\ rsp.params[i].type = "PT_TYPE"
               /\ \A k \in 1 .. Len(rsp.reads) : rsp.reads[k].i < i
               /\ \A j \in 1 .. (i - 1) : rsp.params[j].type = "PT_TYPE" =>
                      \E k \in 1 .. Len(rsp.reads) : rsp.reads[k].i > j
    ELSE Len(rsp.params) + 1

\* C17: read_scalar_params reads the descriptors in array order; an absent
\* parameter without MANDATORY is skipped and the walk goes on, the result
\* being 0 when nothing else fails, even when the last descriptor was
\* absent; at the first descriptor whose extractor returns a code that is
\* not 0 and not the ENOENT of a parameter without MANDATORY it returns that
\* code at once and reads no later descriptor; a descriptor of type PT_TYPE
\* makes it return EINVAL.
C17_WalkOfDescriptors ==
    RspReturned =>
        /\ \A k \in 1 .. Len(rsp.reads) :
              /\ rsp.reads[k].i = ExtractedUpTo(Len(rsp.params))[k]
              /\ rsp.params[rsp.reads[k].i].item.kind = "absent" =>
                    rsp.reads[k].rc = ENOENT
              /\ StopsWalk(k) => (k = Len(rsp.reads) /\ rsp.rc = rsp.reads[k].rc)
        /\ \A i \in 1 .. Len(rsp.params) :
              (i < WalkEnd /\ Extracted(rsp.params[i])) =>
                  \E k \in 1 .. Len(rsp.reads) : rsp.reads[k].i = i
        /\ \A i \in 1 .. Len(rsp.params) :
              i > WalkEnd => rsp.targets[i] = OldTarget(rsp.params[i].type)
        /\ (WalkEnd <= Len(rsp.params) /\ rsp.params[WalkEnd].type = "PT_TYPE") =>
              rsp.rc = EINVAL
        /\ WalkEnd = Len(rsp.params) + 1 => rsp.rc = 0
        /\ rsp.rc = 0 => WalkEnd = Len(rsp.params) + 1

\* an integer read, then an absent parameter without MANDATORY as the last
\* descriptor: the result is 0
C17_Witness ==
    /\ RspReturned
    /\ Len(rsp.params) = 2
    /\ rsp.params[1].type = "PT_INT"
    /\ rsp.params[2].item.kind = "absent"
    /\ rsp.params[2].type = "PT_SIZE"
    /\ "PFLG_MANDATORY" \notin rsp.params[2].flags
    /\ rsp.reads = <<[i |-> 1, rc |-> 0], [i |-> 2, rc |-> ENOENT]>>
    /\ rsp.rc = 0

-----------------------------------------------------------------------------
(* Properties of the criteria compiler                                     *)

CriCompiled == cri.fn = "criteria2condition" /\ ~cri.crashed /\ cri.rc = 0

\* the comparator a source operator denotes, written out independently of
\* syntax2conf_comparator
DirectImage ==
    [OP_EQUAL |-> "COMP_EQUAL", OP_DIFF |-> "COMP_DIFF", OP_GT |-> "COMP_GRTHAN",
     OP_GT_EQ |-> "COMP_GRTHAN_EQ", OP_LT |-> "COMP_LSTHAN",
     OP_LT_EQ |-> "COMP_LSTHAN_EQ", OP_CMD |-> "COMP_NONE"]

HasWildcard(value) == \E k \in 1 .. Len(value) : value[k] \in {"*", "?", "["}

\* C9: a successfully compiled string triplet has operator LIKE (UNLIKE) iff
\* the source operator was == (!=) and the value holds one of * ? [ with
\* NO_WILDCARDS unset; every other successful triplet, and every triplet of
\* a criterion that is not a string, carries the direct image of the source
\* operator.
C9_WildcardRewrite ==
    CriCompiled =>
        LET op == cri.key_value.op_type
            rewritten == /\ cri.type = "PT_STRING"
                         /\ HasWildcard(cri.key_value.varvalue)
                         /\ "PFLG_NO_WILDCARDS" \notin cri.flags
        IN  /\ cri.triplet.op = "COMP_LIKE" <=> (op = "OP_EQUAL" /\ rewritten)
            /\ cri.triplet.op = "COMP_UNLIKE" <=> (op = "OP_DIFF" /\ rewritten)
            /\ cri.triplet.op \notin {"COMP_LIKE", "COMP_UNLIKE"} =>
                   cri.triplet.op = DirectImage[op]

\* a string != with a wildcard compiled to UNLIKE
C9_Witness ==
    /\ CriCompiled
    /\ cri.type = "PT_STRING"
    /\ cri.key_value.op_type = "OP_DIFF"
    /\ cri.key_value.varvalue = <<"a", "*">>
    /\ cri.triplet.op = "COMP_UNLIKE"

RelationalOps == {"OP_GT", "OP_GT_EQ", "OP_LT", "OP_LT_EQ"}

\* the same condition written with ==
WithEqual == [cri.key_value EXCEPT !.op_type = "OP_EQUAL"]

\* the value is valid: the same condition written with == compiles
OtherwiseValid ==
    LET r == criteria2condition(WithEqual, FreshTriplet, cri.mask_in, "", "crit",
                                cri.type, cri.attr_mask, cri.flags, cri.smi, "passes")
    IN  r.rc = 0 /\ ~r.ub_hit

\* C10: for a criterion without PFLG_COMPARABLE, compilation never succeeds
\* with an operator outside {==, !=, LIKE, UNLIKE}; with <, <=, > or >= and
\* an otherwise valid value it returns EINVAL and the message "Illegal
\* comparator for <name> criteria: == or != expected".
C10_NonComparableRejected ==
    (cri.fn = "criteria2condition" /\ "PFLG_COMPARABLE" \notin cri.flags) =>
        /\ CriCompiled =>
              cri.triplet.op \in {"COMP_EQUAL", "COMP_DIFF", "COMP_LIKE", "COMP_UNLIKE"}
        /\ (cri.key_value.op_type \in RelationalOps /\ OtherwiseValid) =>
              /\ ~cri.crashed
              /\ cri.rc = EINVAL
              /\ cri.err = "Illegal comparator for %s criteria: == or != expected"

\* a file type compared with > : rejected on the comparator alone
C10_Witness ==
    /\ cri.fn = "criteria2condition"
    /\ cri.type = "PT_TYPE"
    /\ "PFLG_COMPARABLE" \notin cri.flags
    /\ cri.key_value.op_type = "OP_GT"
    /\ cri.key_value.varvalue = <<"f", "i", "l", "e">>
    /\ cri.rc = EINVAL
    /\ cri.err = "Illegal comparator for %s criteria: == or != expected"

\* the value holds the "**" token
HasStarStar(value) ==
    \E k \in 1 .. (Len(value) - 1) : value[k] = "*" /\ value[k + 1] = "*"

\* a string criterion without ALLOW_ANY_DEPTH was given a value with "**"
NoAnyDepthCase ==
    /\ cri.fn = "criteria2condition"
    /\ cri.type = "PT_STRING"
    /\ "PFLG_ALLOW_ANY_DEPTH" \notin cri.flags
    /\ HasStarStar(cri.key_value.varvalue)

AnyDepthCase ==
    /\ cri.fn = "criteria2condition"
    /\ cri.type = "PT_STRING"
    /\ "PFLG_ALLOW_ANY_DEPTH" \in cri.flags
    /\ "PFLG_XATTR" \notin cri.flags
    /\ "PFLG_STATUS" \notin cri.flags
    /\ HasStarStar(cri.key_value.varvalue)

\* every "**" is preceded by '/' or starts the string, and is followed by
\* '/' or ends the string
WellPlaced(value) ==
    \A k \in 1 .. (Len(value) - 1) :
        (value[k] = "*" /\ value[k + 1] = "*") =>
            /\ k = 1 \/ value[k - 1] = "/"
            /\ k + 2 > Len(value) \/ value[k + 2] = "/"

\* the value with "**" read as '*' and '?' as "[!/]", in one pass
RECURSIVE Rewritten(_)
Rewritten(value) ==
    IF value = <<>> THEN <<>>
    ELSE IF Len(value) >= 2 /\ value[1] = "*" /\ value[2] = "*"
    THEN <<"*">> \o Rewritten(SubSeq(value, 3, Len(value)))
    ELSE IF value[1] = "?"
    THEN <<"[", "!", "/", "]">> \o Rewritten(Tail(value))
    ELSE <<value[1]>> \o Rewritten(Tail(value))

\* what a successful compilation of an any-depth value leaves in the triplet
AnyDepthStored ==
    /\ cri.triplet.val = Rewritten(cri.key_value.varvalue)
    /\ ~HasStarStar(cri.triplet.val)
    /\ cri.triplet.flags = {"CMP_FLG_ANY_LEVEL"}

\* C12 as stated: in the any-depth case compilation succeeds iff every "**"
\* is well placed; on success the stored value is the rewritten input and
\* ANY_LEVEL is set; every other successful compilation leaves flags 0.
C12_AnyDepthAcceptedIffWellPlaced ==
    /\ AnyDepthCase =>
          /\ CriCompiled <=> WellPlaced(cri.key_value.varvalue)
          /\ CriCompiled => AnyDepthStored
    /\ (CriCompiled /\ ~AnyDepthCase) => cri.triplet.flags = {}

\* the checks of criteria2condition that do not look at "**"
PassesOtherChecks ==
    /\ "PFLG_NO_WILDCARDS" \notin cri.flags
    /\ ~("PFLG_NO_SLASH" \in cri.flags /\ Contains(cri.key_value.varvalue, "/"))
    /\ \/ "PFLG_COMPARABLE" \in cri.flags
       \/ cri.key_value.op_type \in {"OP_EQUAL", "OP_DIFF"}

\* C12, amended: in the any-depth case compilation succeeds iff every "**"
\* is well placed and, besides, NO_WILDCARDS is unset, NO_SLASH is unset or
\* the value has no '/', and the operator is == or != or the criterion is
\* COMPARABLE; a badly placed "**" that reaches the placement check is
\* rejected with EINVAL and its message; on success the stored value is the
\* rewritten input, without "**", and ANY_LEVEL is the only flag; every
\* other successful compilation leaves flags 0.
C12_AnyDepthAcceptedIffWellPlacedAndValid ==
    /\ AnyDepthCase =>
          /\ CriCompiled <=> (WellPlaced(cri.key_value.varvalue) /\ PassesOtherChecks)
          /\ CriCompiled => AnyDepthStored
          /\ (~WellPlaced(cri.key_value.varvalue)
                 /\ "PFLG_NO_WILDCARDS" \notin cri.flags
                 /\ ~("PFLG_NO_SLASH" \in cri.flags
                         /\ Contains(cri.key_value.varvalue, "/"))) =>
                /\ ~cri.crashed
                /\ cri.rc = EINVAL
                /\ cri.err = "Character before and after '**' must be a '/' in '%s'"
    /\ (CriCompiled /\ ~AnyDepthCase) => cri.triplet.flags = {}

\* "?/**" compiled to "[!/]/*" with ANY_LEVEL
C12_Witness ==
    /\ AnyDepthCase
    /\ CriCompiled
    /\ cri.key_value.varvalue = <<"?", "/", "*", "*">>
    /\ cri.triplet.val = <<"[", "!", "/", "]", "/", "*">>
    /\ cri.triplet.flags = {"CMP_FLG_ANY_LEVEL"}


\* criteria2condition returned an error
CriRejected == cri.fn = "criteria2condition" /\ ~cri.crashed /\ cri.rc # 0

\* C23: every non-zero return of criteria compilation has written into
\* err_msg a non-empty message describing that error, so that the message
\* GetBoolExpr hands back is never a stale or unset buffer content; this
\* holds for each rejection branch, the empty string with NOT_EMPTY, the
\* slash with NO_SLASH and "**" without ALLOW_ANY_DEPTH included. (err_msg
\* is empty when the compilation is called.)
C23_RejectionWritesMessage ==
    CriRejected => cri.err # ""


\* the operators of a triplet
TripletOperators ==
    {"COMP_EQUAL", "COMP_DIFF", "COMP_LSTHAN", "COMP_LSTHAN_EQ", "COMP_GRTHAN",
     "COMP_GRTHAN_EQ", "COMP_LIKE", "COMP_UNLIKE"}

\* C27: every triplet produced by a successful criteria compilation has an
\* operator among ==, !=, <, <=, >, >=, LIKE and UNLIKE: a source item whose
\* operator has no image (OP_CMD or an unknown operator, converted to
\* COMP_NONE) is rejected for every criterion, comparable or not.
C27_OperatorInClosedSet ==
    /\ CriCompiled => cri.triplet.op \in TripletOperators
    /\ (cri.fn = "criteria2condition" /\ ~cri.crashed /\ cri.key_value.op_type = "OP_CMD") =>
          cri.rc # 0

-----------------------------------------------------------------------------
(* Properties of the bool trees                                            *)

Cells == 1 .. Len(mem)
ClassRoots == {fileset_list[i].definition : i \in 1 .. Len(fileset_list)}

\* the allocations made for the file class definitions, roots included
ClassCells == {a \in Cells : mem[a].for \in ClassRoots}

IsInterior(a) == mem[a].node.node_type \in {"NODE_UNARY_EXPR", "NODE_BINARY_EXPR"}

ChildrenOf(a) ==
    IF mem[a].node.node_type = "NODE_UNARY_EXPR" THEN {mem[a].node.expr1}
    ELSE IF mem[a].node.node_type = "NODE_BINARY_EXPR"
    THEN {mem[a].node.expr1, mem[a].node.expr2}
    ELSE {}

\* the nodes met walking down from a, in order, a node met twice listed twice
RECURSIVE WalkFrom(_)
WalkFrom(a) ==
    IF mem[a].node.node_type = "NODE_UNARY_EXPR"
    THEN <<a>> \o WalkFrom(mem[a].node.expr1)
    ELSE IF mem[a].node.node_type = "NODE_BINARY_EXPR"
    THEN <<a>> \o WalkFrom(mem[a].node.expr1) \o WalkFrom(mem[a].node.expr2)
    ELSE <<a>>

Reached(a) == {WalkFrom(a)[k] : k \in 1 .. Len(WalkFrom(a))}
NoNodeTwice(a) == Cardinality(Reached(a)) = Len(WalkFrom(a))

BuiltTrees == {j \in 1 .. Len(trees) : trees[j].status = "built"}

\* the trees GetSetExpr returned, as it returned them
SetTrees ==
    {j \in 1 .. Len(trees) : trees[j].fn = "GetSetExpr" /\ trees[j].appended = 0
                             /\ trees[j].status \in {"built", "freed"}}

\* C1: FreeBoolExpr on a tree built by GetSetExpr frees no node and no
\* triplet of a file class definition, whatever the definitions are; once
\* the tree and then every class definition have been freed, no allocation
\* has been freed twice and every allocation of the tree and of the classes
\* has been freed.
C1_SetTreeFreeSparesClasses ==
    /\ (call.fn = "FreeBoolExpr" /\ \E j \in SetTrees : trees[j].root = call.root) =>
          call.freed \cap ClassCells = {}
    /\ (call.fn = "FreeFileClasses" /\ SetTrees # {}) =>
          /\ ~call.ub
          /\ \A a \in Cells : mem[a].nfree <= 1
          /\ \A a \in ClassCells : mem[a].storage = "heap" => mem[a].nfree = 1

OwningParents(c) ==
    {b \in Cells : /\ mem[b].nfree = 0
                   /\ IsInterior(b)
                   /\ mem[b].node.owner = 1
                   /\ c \in ChildrenOf(b)}

HotColdExpr == SetOp("SET_OP_INTER", SetOp("SET_OP_UNION", Hot, Cold), Negation(Cold))

\* the trees GetSetExpr built from it, with a root that came from malloc
HotColdTrees ==
    {j \in SetTrees : /\ trees[j].input = Block(<<SetItem(HotColdExpr)>>)
                      /\ mem[trees[j].root].storage = "heap"}

ViewOf(i) == [mem[fileset_list[i].definition].node EXCEPT !.owner = 0]

\* the tree at root is AND(OR(<hot>, <cold>), NOT(<cold>)), the <x> nodes
\* being the class roots with owner = 0
HotColdShape(root) ==
    LET and == mem[root].node
        or == mem[and.expr1].node
        not == mem[and.expr2].node
    IN  /\ and.node_type = "NODE_BINARY_EXPR" /\ and.bool_op = "BOOL_AND" /\ and.owner = 1
        /\ or.node_type = "NODE_BINARY_EXPR" /\ or.bool_op = "BOOL_OR" /\ or.owner = 1
        /\ not.node_type = "NODE_UNARY_EXPR" /\ not.bool_op = "BOOL_NOT" /\ not.owner = 1
        /\ not.expr2 = NULL
        /\ mem[or.expr1].node = ViewOf(1)
        /\ mem[or.expr2].node = ViewOf(2)
        /\ mem[not.expr1].node = ViewOf(2)

InteriorNodes(root) == {root, mem[root].node.expr1, mem[root].node.expr2}

CopyNodes(root) ==
    {mem[mem[root].node.expr1].node.expr1, mem[mem[root].node.expr1].node.expr2,
     mem[mem[root].node.expr2].node.expr1}

\* the triplet of class i when its definition is a single condition
LeafTriplet(i) ==
    IF mem[fileset_list[i].definition].node.node_type = "NODE_CONDITION"
    THEN {mem[fileset_list[i].definition].node.condition}
    ELSE {}

GetBoolExprReturned == call.fn = "GetBoolExpr" /\ ~call.ub

\* the block GetBoolExpr was called on and, when the block holds exactly
\* one boolean expression, that expression
CalledBlock == trees[Len(trees)].input
HoldsOneBoolExpr(block) ==
    /\ block.type = "TYPE_BLOCK"
    /\ Len(block.block_content) = 1
    /\ block.block_content[1].type = "TYPE_BOOL_EXPR"
CalledExpr == CalledBlock.block_content[1].item

\* the attribute bits of the criterion of leaf a, for the status manager
\* instance of the call
LeafMask(a) ==
    LET crit == mem[mem[a].node.condition].triplet.crit
    IN  IF "PFLG_STATUS" \in criteria_descr[crit].parsing_flags
        THEN BitOr(criteria_descr[crit].attr_mask, SMI_MASK(call.smi.smi_index))
        ELSE criteria_descr[crit].attr_mask

\* the OR of the leaf masks of the nodes walk[k], walk[k + 1], ...
RECURSIVE OrOfLeaves(_, _)
OrOfLeaves(walk, k) ==
    IF k > Len(walk) THEN 0
    ELSE IF IsInterior(walk[k]) THEN OrOfLeaves(walk, k + 1)
    ELSE BitOr(LeafMask(walk[k]), OrOfLeaves(walk, k + 1))

\* the conditions of a parsed expression
RECURSIVE ConditionsOf(_)
ConditionsOf(e) ==
    IF e.type = "BOOL_CONDITION" THEN {e.key_value}
    ELSE IF e.type = "BOOL_UNARY" THEN ConditionsOf(e.expr1)
    ELSE ConditionsOf(e.expr1) \cup ConditionsOf(e.expr2)

\* the mask build_bool_expr returns for e when *p_attr_mask holds m
MaskBuiltFrom(e, m) ==
    build_bool_expr(HeapWithRoot("static", 0, "passes"), e, Len(mem) + 1, m,
                    StaleErr, call.smi).mask

\* C13: after a successful GetBoolExpr the attribute mask is exactly the OR,
\* over the condition leaves of the built tree, of the criterion's attr_mask
\* (with the SMI_MASK bit of the status manager for a status criterion);
\* the build never clears a bit of the mask it is given, and the mask of a
\* conjunction holds the mask of its first conjunct; a status criterion
\* compiled without status manager is rejected with EINVAL.
C13_MaskIsOrOfLeafMasks ==
    (GetBoolExprReturned /\ HoldsOneBoolExpr(CalledBlock)) =>
        /\ call.rc = 0 => call.mask = OrOfLeaves(WalkFrom(call.root), 1)
        /\ \A m \in Masks : BitAnd(MaskBuiltFrom(CalledExpr, m), m) = m
        /\ (call.rc = 0 /\ CalledExpr.type = "BOOL_BINARY") =>
              BitAnd(call.mask, MaskBuiltFrom(CalledExpr.expr1, 0))
                  = MaskBuiltFrom(CalledExpr.expr1, 0)
        /\ (call.smi = NoSmi /\ StatusCond \in ConditionsOf(CalledExpr)) =>
              /\ call.rc \in {EINVAL, ENOMEM}
              /\ call.rc = EINVAL =>
                    call.err = <<"'%s' criteria is not expected in this context",
                                 ", line %d">>

\* name == "a*" and status == "a" with a status manager: the mask holds the
\* bit of name and the bit of the status manager
C13_Witness ==
    /\ GetBoolExprReturned
    /\ call.rc = 0
    /\ CalledExpr = Binary("BOOL_OP_AND", Cond(NameCond), Cond(StatusCond))
    /\ call.smi = TheSmi
    /\ call.mask = BitOr(2, SMI_MASK(1))

\* GetSetExpr returned (the last call made)
GetSetExprReturned == call.fn = "GetSetExpr" /\ ~call.ub

HoldsOneSet(block) ==
    /\ block.type = "TYPE_BLOCK"
    /\ Len(block.block_content) = 1
    /\ block.block_content[1].type = "TYPE_SET"
CalledSet == CalledBlock.block_content[1].item

\* the file classes a name denotes, letter case put aside
ClassesNamed(name) ==
    {i \in 1 .. Len(fileset_list) : ToLower(fileset_list[i].fileset_id) = ToLower(name)}

\* the names a set expression refers to
RECURSIVE NamesOf(_)
NamesOf(set) ==
    IF set.set_type = "SET_SINGLETON" THEN {set.name}
    ELSE IF set.set_type = "SET_NEGATION" THEN NamesOf(set.set1)
    ELSE NamesOf(set.set1) \cup NamesOf(set.set2)

\* the operators of a set expression are those of its node types
RECURSIVE OperatorsValid(_)
OperatorsValid(set) ==
    IF set.set_type = "SET_SINGLETON" THEN TRUE
    ELSE IF set.set_type = "SET_NEGATION"
    THEN set.oper = "SET_OP_NOT" /\ OperatorsValid(set.set1)
    ELSE /\ set.oper \in {"SET_OP_UNION", "SET_OP_INTER"}
         /\ OperatorsValid(set.set1)
         /\ OperatorsValid(set.set2)

\* the OR of the masks of the classes in S
RECURSIVE OrOfClassMasks(_)
OrOfClassMasks(S) ==
    IF S = {} THEN 0
    ELSE LET i == CHOOSE x \in S : TRUE
         IN  BitOr(fileset_list[i].attr_mask, OrOfClassMasks(S \ {i}))

\* the node at a is what the builder makes of the set expression
RECURSIVE BuiltFromSet(_, _)
BuiltFromSet(set, a) ==
    IF set.set_type = "SET_SINGLETON"
    THEN \E i \in ClassesNamed(set.name) :
            /\ a # fileset_list[i].definition
            /\ mem[a].node = [mem[fileset_list[i].definition].node EXCEPT !.owner = 0]
    ELSE IF set.set_type = "SET_NEGATION"
    THEN /\ mem[a].node.node_type = "NODE_UNARY_EXPR"
         /\ mem[a].node.bool_op = "BOOL_NOT"
         /\ mem[a].node.owner = 1
         /\ BuiltFromSet(set.set1, mem[a].node.expr1)
    ELSE /\ mem[a].node.node_type = "NODE_BINARY_EXPR"
         /\ mem[a].node.bool_op = (IF set.oper = "SET_OP_UNION" THEN "BOOL_OR" ELSE "BOOL_AND")
         /\ mem[a].node.owner = 1
         /\ BuiltFromSet(set.set1, mem[a].node.expr1)
         /\ BuiltFromSet(set.set2, mem[a].node.expr2)

\* C14: a singleton name is looked up in the file class table without
\* regard to letter case; on a hit the output node is a shallow copy of the
\* class's root with owner false and the class's mask is ORed in, so that a
\* successful GetSetExpr returns the OR of the masks of the classes referred
\* to; on a miss the builder fails with ENOENT and "FileClass '<name>' is
\* undefined"; UNION builds BINARY OR, INTER BINARY AND, NOT UNARY NOT, each
\* with owner true.
C14_SetBuilderLooksUpClasses ==
    (GetSetExprReturned /\ HoldsOneSet(CalledBlock)) =>
        /\ call.rc = 0 =>
              /\ BuiltFromSet(CalledSet, call.root)
              /\ call.mask = OrOfClassMasks(UNION {ClassesNamed(n) : n \in NamesOf(CalledSet)})
        /\ call.rc = ENOENT <=>
              /\ \E n \in NamesOf(CalledSet) : ClassesNamed(n) = {}
              /\ call.err = <<"FileClass '%s' is undefined", ", line %d">>
        /\ (OperatorsValid(CalledSet) /\ \E n \in NamesOf(CalledSet) : ClassesNamed(n) = {}) =>
              call.rc \in {ENOENT, ENOMEM}
        /\ (CalledSet.set_type = "SET_SINGLETON" /\ ClassesNamed(CalledSet.name) # {}) =>
              call.rc = 0

\* "Cold" denotes the class cold: the root is a copy of its definition
C14_Witness ==
    /\ GetSetExprReturned
    /\ call.rc = 0
    /\ CalledSet = Singleton(<<"C", "o", "l", "d">>)
    /\ Len(fileset_list) = 2
    /\ mem[call.root].node = [mem[fileset_list[2].definition].node EXCEPT !.owner = 0]
    /\ call.mask = fileset_list[2].attr_mask

\* GetBoolExpr or GetSetExpr returned (the last call made)
FrameReturned == call.fn \in {"GetBoolExpr", "GetSetExpr"} /\ ~call.ub

\* the item type the function called expects in the block
ExpectedItem == IF call.fn = "GetBoolExpr" THEN "TYPE_BOOL_EXPR" ELSE "TYPE_SET"

\* the builder was not run: nothing was allocated or freed, the caller's
\* node was not written and the mask is 0
NothingBuilt ==
    /\ Len(mem) = call.root
    /\ mem[call.root].node = BlankNode
    /\ call.freed = {}
    /\ call.mask = 0

\* the memory at the call, the caller's node included
MemoryAtCall ==
    Append(SubSeq(mem, 1, call.root - 1),
           NewCell("node", mem[call.root].storage, call.root))

\* what the builder returns on the block's item when the malloc call
\* failAt fails and an undefined write ends as sprintf says
BuilderResult(failAt, sprintf) ==
    IF call.fn = "GetBoolExpr"
    THEN build_bool_expr(Heap(MemoryAtCall, Budget(failAt), call.root, sprintf),
                         CalledBlock.block_content[1].item, call.root, 0, StaleErr,
                         call.smi)
    ELSE build_set_expr(Heap(MemoryAtCall, Budget(failAt), call.root, sprintf),
                        CalledBlock.block_content[1].item, call.root, 0, StaleErr,
                        fileset_list)

\* the call returned what the builder returned, ", line <n>" added to the
\* message of a failure
ReturnedFromBuilder(r) ==
    /\ ~r.h.ub
    /\ r.h.mem = mem
    /\ call.rc = r.rc
    /\ call.mask = r.mask
    /\ call.err = (IF r.rc # 0 THEN Append(r.err, ", line %d") ELSE r.err)

\* C15: GetBoolExpr and GetSetExpr set the mask to 0, return EINVAL for an
\* item that is null or no block, ENOENT for an empty block, EINVAL when the
\* first child is not of the expected type or has a sibling, all without
\* running the builder or allocating; otherwise they run the builder and, on
\* its failure, return its code with ", line <n>" appended to the message.
C15_BlockFraming ==
    FrameReturned =>
        LET block == CalledBlock
        IN  IF block.type # "TYPE_BLOCK"
            THEN /\ call.rc = EINVAL
                 /\ call.err = <<"'%s' is expected to be a block">>
                 /\ NothingBuilt
            ELSE IF block.block_content = <<>>
            THEN /\ call.rc = ENOENT
                 /\ call.err = <<"'%s' block is empty, line %d">>
                 /\ NothingBuilt
            ELSE IF block.block_content[1].type # ExpectedItem
                    \/ Len(block.block_content) > 1
            THEN /\ call.rc = EINVAL
                 /\ Len(call.err) = 1
                 /\ NothingBuilt
            ELSE /\ \E failAt \in 0 .. MaxFailAt, sprintf \in UBOutcomes :
                       ReturnedFromBuilder(BuilderResult(failAt, sprintf))
                 /\ call.rc # 0 =>
                       /\ Len(call.err) >= 2
                       /\ call.err[Len(call.err)] = ", line %d"
                 /\ call.rc = 0 =>
                       /\ call.err = StaleErr
                       /\ mem[call.root].node.node_type # "?"

\* a block with two boolean expressions: EINVAL, nothing built
C15_Witness ==
    /\ call.fn = "GetBoolExpr"
    /\ CalledBlock = Block(<<BoolItem(Cond(SizeCond)), BoolItem(Cond(NameCond))>>)
    /\ call.rc = EINVAL
    /\ call.err = <<"A single boolean expression is expected in block '%s', line %d">>
    /\ NothingBuilt


\* a step in which AppendBoolCond returned 0 on the tree rooted at call'.root
AppendSucceeded ==
    /\ trees' # trees
    /\ call'.fn = "AppendBoolCond"
    /\ call'.rc = 0

\* the three allocations of a successful AppendBoolCond on a memory of n cells
AppendedCells(n) == {n + 1, n + 2, n + 3}

\* *io after the call, against the memory before it
AppendedShape(io) ==
    /\ Len(mem') = Len(mem) + 3
    /\ \A a \in (1 .. Len(mem)) \ {io} : mem'[a] = mem[a]
    /\ mem'[io].node.node_type = "NODE_BINARY_EXPR"
    /\ mem'[io].node.bool_op = "BOOL_AND"
    /\ mem'[io].node.owner = 1
    /\ {mem'[io].node.expr1, mem'[io].node.expr2} \subseteq AppendedCells(Len(mem))
    /\ mem'[io].node.expr1 # mem'[io].node.expr2
    /\ mem'[mem'[io].node.expr1].node = mem[io].node
    /\ mem'[mem'[io].node.expr2].node.node_type = "NODE_CONDITION"
    /\ mem'[mem'[io].node.expr2].node.condition
            \in AppendedCells(Len(mem)) \ {mem'[io].node.expr1, mem'[io].node.expr2}
    /\ mem'[mem'[mem'[io].node.expr2].node.condition].triplet =
            [crit |-> "CRITERIA_SIZE", op |-> "COMP_GRTHAN", val |-> 1,
             xattr_name |-> <<>>, flags |-> {}]
    /\ \A a \in AppendedCells(Len(mem)) : mem'[a].nfree = 0 /\ mem'[a].storage = "heap"

\* a step in which FreeBoolExpr ran on a tree AppendBoolCond had extended
FreedAfterAppend ==
    /\ trees' # trees
    /\ call'.fn = "FreeBoolExpr"
    /\ \E j \in 1 .. Len(trees) : trees[j].root = call'.root /\ trees[j].appended > 0

\* the cells of the last append on the tree at io: the copy of the prior root,
\* the new leaf and its triplet
CopyOfPrior(io) == mem[io].node.expr1
NewLeaf(io) == mem[io].node.expr2
NewCells(io) == {CopyOfPrior(io), NewLeaf(io), mem[NewLeaf(io)].node.condition}

\* the memory had FreeBoolExpr run on the prior expression instead: the
\* prior root is back in *io
PriorFreed(io) ==
    FreeBoolExprMem(Heap([mem EXCEPT ![io].node = mem[CopyOfPrior(io)].node],
                         Budget(0), io, "passes"),
                    io, mem[io].storage = "heap")

\* every cell other than the three of the append is freed as often as
\* freeing the prior expression would have freed it, and the three are
\* freed once
SameFrees(io) ==
    /\ \A a \in (1 .. Len(mem)) \ NewCells(io) : mem'[a].nfree = PriorFreed(io).mem[a].nfree
    /\ \A a \in NewCells(io) : mem'[a].nfree = 1
    /\ call'.ub = PriorFreed(io).ub

\* C20: after a successful AppendBoolCond(io, op, crit, val), *io is a BINARY
\* node with operator AND and owner set whose left child is a new node equal
\* to the previous content of *io (kind, operator, children, owner flag and
\* triplet pointer: nothing below it is copied) and whose right child is a
\* new CONDITION leaf with the given criterion, operator and value and flags
\* 0; FreeBoolExpr on the result frees the nodes of the prior expression
\* exactly as freeing the prior expression would have.
C20_AppendMovesPriorUnderAnd ==
    [][/\ AppendSucceeded => AppendedShape(call'.root)
       /\ FreedAfterAppend => SameFrees(call'.root)]_vars

\* a tree with an interior root was extended and then freed without fault
C20_Witness ==
    /\ call.fn = "FreeBoolExpr"
    /\ ~call.ub
    /\ \E j \in 1 .. Len(trees) :
          /\ trees[j].root = call.root
          /\ trees[j].appended > 0
          /\ trees[j].status = "freed"
          /\ mem[trees[j].root].node.node_type = "NODE_BINARY_EXPR"
          /\ mem[mem[trees[j].root].node.expr1].node.node_type = "NODE_BINARY_EXPR"
          /\ mem[mem[mem[trees[j].root].node.expr1].node.expr1].nfree = 1
          /\ mem[mem[mem[trees[j].root].node.expr2].node.condition].nfree = 1


\* BoolExpr2str returned (the last call made)
PrintReturned == call.fn = "BoolExpr2str" /\ ~call.ub

\* a size_t below 2^16
SmallSize(size) == size[2] = 0 /\ size[3] = 0 /\ size[4] = 0

\* the bytes of the buffer a snprintf call stores to, the terminating null
\* included: none when size is 0, at most size otherwise
BytesStored(w) ==
    IF w.size = U64(0) THEN {}
    ELSE IF SmallSize(w.size) /\ w.size[1] - 1 < Len(w.text)
    THEN w.at .. (w.at + w.size[1] - 1)
    ELSE w.at .. (w.at + Len(w.text))

\* C21: for every bool tree and every buffer size n, BoolExpr2str writes at
\* most n bytes into the buffer and returns a negative error or a count that
\* is at most n, also when the text of the tree is longer than n; the size
\* passed to each nested write never exceeds the space left in the buffer.
C21_PrinterStaysInBuffer ==
    PrintReturned =>
        /\ \A k \in 1 .. Len(call.print.writes) :
              BytesStored(call.print.writes[k]) \subseteq 0 .. (call.print.str_size - 1)
        /\ call.rc < 0 \/ call.rc <= call.print.str_size
        /\ \A k \in 1 .. Len(call.print.writes) :
              /\ call.print.writes[k].at <= call.print.str_size
              /\ SmallSize(call.print.writes[k].size)
              /\ call.print.writes[k].size[1] <= call.print.str_size - call.print.writes[k].at


\* the triplets of the conditions of the tree at p
RECURSIVE TripletsUnder(_)
TripletsUnder(p) ==
    CASE mem[p].node.node_type = "NODE_CONDITION" -> {mem[p].node.condition}
      [] mem[p].node.node_type = "NODE_UNARY_EXPR" -> TripletsUnder(mem[p].node.expr1)
      [] mem[p].node.node_type = "NODE_BINARY_EXPR" ->
            TripletsUnder(mem[p].node.expr1) \cup TripletsUnder(mem[p].node.expr2)
      [] OTHER -> {}

\* the words of a text: the runs of characters between spaces
RECURSIVE Words(_, _)
Words(text, word) ==
    IF text = <<>> THEN (IF word = <<>> THEN <<>> ELSE <<word>>)
    ELSE IF text[1] = " "
    THEN (IF word = <<>> THEN <<>> ELSE <<word>>) \o Words(Tail(text), <<>>)
    ELSE Words(Tail(text), Append(word, text[1]))

\* the operators of a key/value item in the input syntax
SourceOperator(word) ==
    CASE word \in {<<"=">>, <<"=", "=">>} -> "OP_EQUAL"
      [] word = <<"!", "=">> -> "OP_DIFF"
      [] word = <<">">> -> "OP_GT"
      [] word = <<">", "=">> -> "OP_GT_EQ"
      [] word = <<"<">> -> "OP_LT"
      [] word = <<"<", "=">> -> "OP_LT_EQ"
      [] OTHER -> "none"

\* a value of the input syntax without its quotes
Unquoted(word) ==
    IF Len(word) >= 2 /\ word[1] = "\"" /\ word[Len(word)] = "\""
    THEN SubSeq(word, 2, Len(word) - 1)
    ELSE word

\* the condition the words name, compiled
Recompiled(words, smi) ==
    interpret_condition(KeyValue(words[1], SourceOperator(words[2]), Unquoted(words[3])),
                        FreshTriplet, 0, smi, "passes")

\* the text of triplet t is a condition of the input syntax that compiles
\* to t again
LeafRoundTrips(t, smi) ==
    /\ print_condition(t).rc = 0
    /\ Len(Words(print_condition(t).text, <<>>)) = 3
    /\ SourceOperator(Words(print_condition(t).text, <<>>)[2]) # "none"
    /\ Recompiled(Words(print_condition(t).text, <<>>), smi).rc = 0
    /\ Recompiled(Words(print_condition(t).text, <<>>), smi).triplet = t

\* BoolExpr2str printed, into a buffer that holds the text, a tree that
\* GetBoolExpr built and nothing changed since
PrintedBuiltTree ==
    /\ PrintReturned
    /\ call.print.str_size > call.rc
    /\ \E j \in 1 .. Len(trees) :
          /\ trees[j].root = call.root
          /\ trees[j].fn = "GetBoolExpr"
          /\ trees[j].appended = 0

\* C22: printing then compiling is the identity: the text BoolExpr2str
\* produces for a tree GetBoolExpr built from well-formed conditions is a
\* well-formed expression of the input syntax that compiles to a tree
\* structurally equal to the original; the operators NOT, AND, OR and the
\* parentheses are printed around the conditions, so the tree comes back
\* when the printer succeeds and each condition comes back.
C22_PrintThenCompileIsIdentity ==
    PrintedBuiltTree =>
        /\ call.rc >= 0
        /\ \A c \in TripletsUnder(call.root) :
              \E smi \in {NoSmi, TheSmi} : LeafRoundTrips(mem[c].triplet, smi)


\* GetBoolExpr or GetSetExpr returned an error (the last call made): the
\* cells after the caller's node are those the builder allocated
BuilderFailed ==
    /\ call.fn \in {"GetBoolExpr", "GetSetExpr"}
    /\ ~call.ub
    /\ call.rc # 0

AllocatedByBuilder == (call.root + 1) .. Len(mem)

\* C24: when build_bool_expr or build_set_expr returns non-zero (a condition
\* is rejected, a class is undefined, an operator is invalid or an
\* allocation fails at any depth), every bool node and every triplet
\* allocated during that call has been freed exactly once, the complete
\* subtree of an already built left child included; the output node of the
\* caller is not freed and no node of a file class is freed.
C24_FailedBuildFreesAll ==
    BuilderFailed =>
        /\ \A a \in AllocatedByBuilder : mem[a].nfree = 1
        /\ mem[call.root].nfree = 0
        /\ call.freed \cap ClassCells = {}


\* the nodes of the tree at p, p included
RECURSIVE NodesUnder(_)
NodesUnder(p) ==
    CASE mem[p].node.node_type = "NODE_UNARY_EXPR" -> {p} \cup NodesUnder(mem[p].node.expr1)
      [] mem[p].node.node_type = "NODE_BINARY_EXPR" ->
            {p} \cup NodesUnder(mem[p].node.expr1) \cup NodesUnder(mem[p].node.expr2)
      [] OTHER -> {p}

\* the operator of node a suits its kind
OperatorSuitsKind(a) ==
    /\ mem[a].node.node_type = "NODE_UNARY_EXPR" => mem[a].node.bool_op = "BOOL_NOT"
    /\ mem[a].node.node_type = "NODE_BINARY_EXPR" =>
          mem[a].node.bool_op \in {"BOOL_AND", "BOOL_OR"}

\* the input expression carries, at its top, an operator its kind does not
\* take (IDENTITY on a unary node is the parenthesis)
MisplacedOperator(e) ==
    \/ e.type = "BOOL_UNARY" /\ e.oper \notin {"BOOL_OP_NOT", "BOOL_OP_IDENTITY"}
    \/ e.type = "BOOL_BINARY" /\ e.oper \notin {"BOOL_OP_AND", "BOOL_OP_OR"}

\* C25: every tree build_bool_expr returns successfully has only NOT as the
\* operator of UNARY nodes and only AND or OR as the operator of BINARY
\* nodes: an input unary node carrying AND or OR, an input binary node
\* carrying NOT or IDENTITY, and any other operator are rejected with EINVAL
\* and the message "Unexpected boolean operator in expression".
C25_OperatorsSuitNodeKinds ==
    (GetBoolExprReturned /\ HoldsOneBoolExpr(CalledBlock)) =>
        /\ call.rc = 0 => \A a \in NodesUnder(call.root) : OperatorSuitsKind(a)
        /\ MisplacedOperator(CalledExpr) =>
              /\ call.rc = EINVAL
              /\ call.err = <<"Unexpected boolean operator in expression", ", line %d">>


\* a cell the builder allocated in the last call, still allocated
FreshCell(a, kind) ==
    /\ a \in AllocatedByBuilder
    /\ mem[a].kind = kind
    /\ mem[a].storage = "heap"
    /\ mem[a].nfree = 0

\* the node at p is the image of input expression e: the IDENTITY wrappers
\* are gone, a condition is a leaf with a triplet of its own holding the
\* compiled condition, an interior node owns its children
RECURSIVE ImageOf(_, _)
ImageOf(e, p) ==
    CASE e.type = "BOOL_CONDITION" ->
            /\ mem[p].node.node_type = "NODE_CONDITION"
            /\ FreshCell(mem[p].node.condition, "triplet")
            /\ mem[mem[p].node.condition].triplet =
                  interpret_condition(e.key_value, BlankTriplet, 0, call.smi, "passes").triplet
      [] e.type = "BOOL_UNARY" /\ e.oper = "BOOL_OP_IDENTITY" -> ImageOf(e.expr1, p)
      [] e.type = "BOOL_UNARY" /\ e.oper # "BOOL_OP_IDENTITY" ->
            /\ mem[p].node.node_type = "NODE_UNARY_EXPR"
            /\ mem[p].node.bool_op = syntax2conf_boolop(e.oper)
            /\ mem[p].node.owner = 1
            /\ mem[p].node.expr2 = NULL
            /\ FreshCell(mem[p].node.expr1, "node")
            /\ ImageOf(e.expr1, mem[p].node.expr1)
      [] e.type = "BOOL_BINARY" ->
            /\ mem[p].node.node_type = "NODE_BINARY_EXPR"
            /\ mem[p].node.bool_op = syntax2conf_boolop(e.oper)
            /\ mem[p].node.owner = 1
            /\ FreshCell(mem[p].node.expr1, "node")
            /\ FreshCell(mem[p].node.expr2, "node")
            /\ ImageOf(e.expr1, mem[p].node.expr1)
            /\ ImageOf(e.expr2, mem[p].node.expr2)
      [] OTHER -> FALSE

\* the nodes and the conditions of an input expression without its wrappers
RECURSIVE InputSize(_)
InputSize(e) ==
    CASE e.type = "BOOL_CONDITION" -> 2
      [] e.type = "BOOL_UNARY" /\ e.oper = "BOOL_OP_IDENTITY" -> InputSize(e.expr1)
      [] e.type = "BOOL_UNARY" /\ e.oper # "BOOL_OP_IDENTITY" -> 1 + InputSize(e.expr1)
      [] e.type = "BOOL_BINARY" -> 1 + InputSize(e.expr1) + InputSize(e.expr2)
      [] OTHER -> 0

AppendFailed ==
    /\ trees' # trees
    /\ call'.fn = "AppendBoolCond"
    /\ ~call'.ub
    /\ call'.rc # 0

\* C29: when AppendBoolCond returns an error (the allocation of the left
\* child node, of the right child node or of the triplet of the new leaf
\* failed), the expression *io held before the call is intact: none of its
\* nodes or triplets has been freed, *io still denotes it, and no memory
\* allocated by the call remains allocated.
C29_FailedAppendKeepsPrior ==
    [][AppendFailed =>
          /\ \A a \in 1 .. Len(mem) : mem'[a] = mem[a]
          /\ \A a \in (Len(mem) + 1) .. Len(mem') : mem'[a].nfree = 1]_vars


\* a step in which GetSetExpr returned, successfully or not
SetExprCalled ==
    /\ trees' # trees
    /\ call'.fn = "GetSetExpr"

\* C30: build_set_expr and GetSetExpr never modify the file class table:
\* after any call, successful or failed, the id, the attr_mask and the
\* definition node of every class (kind, operator, child pointers, triplet
\* pointer and owner flag) are unchanged, as is everything below the
\* definition nodes; the owner flag is cleared only in the copy written to
\* the output node.
C30_SetBuilderLeavesClasses ==
    [][SetExprCalled =>
          /\ fileset_list' = fileset_list
          /\ \A a \in ClassCells : mem'[a] = mem[a]]_vars

\* GetSetExpr returned the view of a class whose definition is an interior
\* node: the view has the owner flag cleared, the definition has it set
C30_Witness ==
    /\ call.fn = "GetSetExpr"
    /\ call.rc = 0
    /\ \E i \in 1 .. Len(fileset_list) :
          /\ mem[fileset_list[i].definition].node.owner = 1
          /\ mem[call.root].node = [mem[fileset_list[i].definition].node EXCEPT !.owner = 0]

-----------------------------------------------------------------------------
(* Properties of the driver                                                *)

\* the selection rule as the driver's contract states it
SelectedModules(module_mask) ==
    {i \in 1 .. NModules :
        modules[i] = MODULE_MASK_ALWAYS \/ BitAnd(modules[i], module_mask) # 0}

\* default then read for every selected module from i on, in table order
RECURSIVE ExpectedReadCalls(_, _)
ExpectedReadCalls(i, module_mask) ==
    IF i > NModules THEN <<>>
    ELSE (IF i \in SelectedModules(module_mask)
          THEN <<(<<"set_default_func", i>>), (<<"read_func", i>>)>>
          ELSE <<>>) \o ExpectedReadCalls(i + 1, module_mask)

RECURSIVE ExpectedReloadCalls(_, _)
ExpectedReloadCalls(i, module_mask) ==
    IF i > NModules THEN <<>>
    ELSE (IF i \in SelectedModules(module_mask)
          THEN << <<"reload_func", i>> >>
          ELSE <<>>) \o ExpectedReloadCalls(i + 1, module_mask)

IsPrefix(s, t) == Len(s) <= Len(t) /\ \A k \in 1 .. Len(s) : s[k] = t[k]

\* the module callbacks of the last call, rh_config_Free left out
ModuleCalls == SelectSeq(drv.calls, LAMBDA c : c[1] # "rh_config_Free")

FreePositions == {k \in 1 .. Len(drv.calls) : drv.calls[k][1] = "rh_config_Free"}

\* C4: after a successful parse ReadRobinhoodConfig calls, in table order
\* and for the selected modules only, set_default_func then read_func: the
\* callbacks made are a prefix of that list, the whole list when none fails.
C4_ReadWalksSelectedModulesInOrder ==
    (drv.op = "read" /\ drv.parsed) =>
        /\ IsPrefix(ModuleCalls, ExpectedReadCalls(1, drv.module_mask))
        /\ (drv.failAt = 0 \/ drv.failAt > Len(ExpectedReadCalls(1, drv.module_mask)))
              => ModuleCalls = ExpectedReadCalls(1, drv.module_mask)

C4_Witness ==
    /\ drv.op = "read" /\ drv.parsed /\ drv.rc = 0
    /\ Cardinality(SelectedModules(drv.module_mask)) = 2
    /\ \E i \in SelectedModules(drv.module_mask) : modules[i] # MODULE_MASK_ALWAYS
    /\ \E i \in SelectedModules(drv.module_mask) : modules[i] = MODULE_MASK_ALWAYS
    /\ Len(ModuleCalls) = 4

\* C5: a non-zero return of a callback ends the walk at that callback and
\* is the result; the result is 0 iff the parse succeeded and every callback
\* made returned 0; a failed parse gives EINVAL and no callback.
C5_ReadStopsAtFirstFailure ==
    drv.op = "read" =>
        LET n == Len(ModuleCalls)
            res(k) == CallbackResult(k, drv.failAt, drv.failCode)
        IN  /\ ~drv.parsed => (drv.rc = EINVAL /\ drv.calls = <<>>)
            /\ drv.parsed =>
                  /\ \A k \in 1 .. n : res(k) # 0 => (k = n /\ drv.rc = res(k))
                  /\ (drv.rc = 0) <=> (\A k \in 1 .. n : res(k) = 0)
            /\ (drv.rc = 0) => drv.parsed

C5_Witness ==
    /\ drv.op = "read" /\ drv.parsed /\ drv.rc = ENOMEM
    /\ Len(ModuleCalls) = 1
    /\ ModuleCalls[1] = <<"set_default_func", 1>>
    /\ Cardinality(SelectedModules(drv.module_mask)) = NModules

\* C6: after a successful parse rh_config_Free is called exactly once, after
\* the last module callback, whether the walk succeeded or not; after a
\* failed parse it is not called.
C6_SyntaxTreeFreedOnce ==
    drv.op = "read" =>
        /\ drv.parsed => FreePositions = {Len(drv.calls)} /\ Len(drv.calls) >= 1
        /\ ~drv.parsed => FreePositions = {}

C6_Witness ==
    /\ drv.op = "read" /\ drv.parsed /\ drv.rc # 0
    /\ Len(drv.calls) = 3
    /\ drv.calls[2][1] = "read_func"
    /\ drv.calls[3][1] = "rh_config_Free"

\* C7: ReloadRobinhoodConfig calls reload_func once for every selected
\* module, in table order, whatever the earlier results, and returns the
\* code of the last module that failed, 0 if none did.
C7_ReloadVisitsAllKeepsLastError ==
    drv.op = "reload" =>
        LET sel == SelectedModules(drv.module_mask)
            failed == {i \in sel : drv.results[i] # 0}
        IN  /\ drv.calls = ExpectedReloadCalls(1, drv.module_mask)
            /\ failed = {} => drv.rc = 0
            /\ failed # {} =>
                  \E i \in failed : /\ \A j \in failed : j <= i
                                    /\ drv.rc = drv.results[i]

C7_Witness ==
    /\ drv.op = "reload"
    /\ SelectedModules(drv.module_mask) = 1 .. NModules
    /\ drv.results[1] = EINVAL
    /\ \A i \in 2 .. NModules : drv.results[i] = 0
    /\ drv.rc = EINVAL
    /\ Len(drv.calls) = NModules

=============================================================================
